---- MODULE Spec2Model ----
(***************************************************************************)
(* State-machine model of the coreDAQ instrument driver                    *)
(* (src/coredaq_py_api.py, class CoreDAQ): the serial transport and its    *)
(* session lock, frontend detection and construction, the bulk transfer    *)
(* and its decode, the snapshot / transfer conversion pipelines and the    *)
(* autogain loop.                                                            *)
(*                                                                         *)
(* Callers are threads; every driver operation is a small program whose    *)
(* steps are the actions below (one per transport access or per handler).  *)
(* The device is the environment: it answers the commands written to it    *)
(* with reply lines and binary payloads drawn from bounded sets.           *)
(***************************************************************************)
EXTENDS Integers, Sequences, FiniteSets, TLC

VARIABLES
    th,         \* thread -> frame of the driver call it is executing
    lock,       \* CoreDAQ._lock : 0 = free, else the holding thread
    ser_open,   \* CoreDAQ._ser.is_open
    rx,         \* bytes the device has sent and the host has not read yet
    devq,       \* commands written to the device and not answered yet
    sent,       \* every command written to the transport, in order
    lastIO,     \* the most recent transport access: thread, kind, serial no.
    sess,       \* the session object's fields
    dev         \* the device's own state (what its replies are drawn from)

vars == <<th, lock, ser_open, rx, devq, sent, lastIO, sess, dev>>

----------------------------------------------------------------------------
(* Bounds of the model *)

\* driver calls each of the concurrent callers may start
MaxCalls == 1
\* driver calls the single caller of a sequential scenario may start
MaxSeqCalls == 2
\* largest frame count passed to a bulk transfer
MaxFrames == 2
\* BUSY replies the device gives to SNAP? polls
MaxBusy == 1
\* largest max_iters passed to the autogain loop
MaxIters == 2
\* most points of a synthetic LUT
MaxPts == 2
\* largest timeout_s passed to wait_for_completion, in clock ticks; also the
\* polls a wait without timeout is followed for
MaxWait == 2

(* Program constants *)

NUM_HEADS == 4
NUM_GAINS == 8
BYTES_PER_FRAME == 8
\* line reads each of the two loops of the LOGCAL download may make
LOGCAL_ATTEMPTS == 120

NoThread == 0

LINEAR == "LINEAR"
LOG == "LOG"

----------------------------------------------------------------------------
(* Generic helpers *)

Min(a, b) == IF a < b THEN a ELSE b
Max(a, b) == IF a > b THEN a ELSE b
Abs(x) == IF x < 0 THEN -x ELSE x

Threads == DOMAIN th

Cmd(name, args) == [name |-> name, args |-> args]

\* a reply line as the device sends it: the status word, the payload tokens
\* and the command it answers
Line(st, pl, of) == [k |-> "line", st |-> st, pl |-> pl, of |-> of]
\* a block of raw bytes
Bytes(data, of) == [k |-> "bytes", data |-> data, of |-> of]

NoLine == [k |-> "none", st |-> "", pl |-> <<>>, of |-> 0]

\* the frame of a thread that is executing no driver call
IdleFrame ==
    [pc |-> "idle", op |-> "none", calls |-> 0, budget |-> 0,
     cmd |-> Cmd("", <<>>), cid |-> 0, ret |-> "idle",
     st |-> "", line |-> NoLine,
     frames |-> 0, need |-> 0, buf |-> <<>>,
     uz |-> "None", db |-> [n |-> 0, d |-> 0],
     sret |-> "idle", codes |-> <<>>, gains |-> <<>>, mv |-> <<>>,
     autogain |-> FALSE, min_mv |-> [n |-> 0, d |-> 1], max_mv |-> [n |-> 0, d |-> 1],
     max_iters |-> 0, iter |-> 0, changed |-> FALSE, chi |-> 0, ev |-> <<>>,
     head |-> 0, gain |-> 0, n_pts |-> 0, tries |-> 0,
     v_volts |-> [n |-> 0, d |-> 1], z |-> <<>>,
     use_trigger |-> FALSE, trigger_rising |-> TRUE,
     timeout_s |-> [some |-> FALSE, s |-> 0], elapsed |-> 0,
     hz |-> 0, os_idx |-> 0, cur_os |-> 0, new_os |-> 0, warned |-> FALSE,
     out |-> [kind |-> "none"]]

Returned(v) == [kind |-> "return", val |-> v]
Raised(e) == [kind |-> "raise", err |-> e]

----------------------------------------------------------------------------
(* Numbers.  The driver computes in binary floating point; the model keeps *)
(* every quantity as an exact fraction [n, d] in lowest terms (d > 0), so  *)
(* two quantities are equal exactly when their records are.                *)

RECURSIVE GCD(_, _)
GCD(a, b) == IF b = 0 THEN Abs(a) ELSE GCD(b, a % b)

Q(n, d) ==
    LET g == GCD(Abs(n), Abs(d))
        sgn == IF d < 0 THEN -1 ELSE 1
    IN  [n |-> sgn * (n \div g), d |-> sgn * (d \div g)]

QInt(i) == [n |-> i, d |-> 1]
QZero == QInt(0)

QNeg(a) == [n |-> -a.n, d |-> a.d]
QAbs(a) == [n |-> Abs(a.n), d |-> a.d]

QLt(a, b) ==
    LET g == GCD(a.d, b.d) IN a.n * (b.d \div g) < b.n * (a.d \div g)
QLe(a, b) == ~QLt(b, a)

QAdd(a, b) ==
    LET g == GCD(a.d, b.d)
    IN  Q(a.n * (b.d \div g) + b.n * (a.d \div g), (a.d \div g) * b.d)
QSub(a, b) == QAdd(a, QNeg(b))

QMul(a, b) ==
    LET g1 == GCD(Abs(a.n), b.d)
        g2 == GCD(Abs(b.n), a.d)
    IN  Q((a.n \div g1) * (b.n \div g2), (a.d \div g2) * (b.d \div g1))

\* a / b, b # 0
QDiv(a, b) == QMul(a, Q(b.d, b.n))

\* a / b to the nearest integer, ties to the even one (b > 0)
RoundHalfEven(a, b) ==
    LET q == a \div b
        r == a % b
    IN  IF 2 * r < b THEN q
        ELSE IF 2 * r > b THEN q + 1
        ELSE IF q % 2 = 0 THEN q ELSE q + 1

Pow10(k) == IF k = 0 THEN 1 ELSE IF k = 1 THEN 10 ELSE IF k = 2 THEN 100
            ELSE IF k = 3 THEN 1000 ELSE IF k = 4 THEN 10000 ELSE 100000

\* round(a, k): a to k decimal places
QRound(a, k) ==
    LET q == a.n \div a.d
        r == a.n % a.d
    IN  Q(q * Pow10(k) + RoundHalfEven(r * Pow10(k), a.d), Pow10(k))

----------------------------------------------------------------------------
(* ADC constants and the raw conversions *)

\* ADC_LSB_VOLTS * 1e3 = 10000 / 65536 mV per code
LSB_mV == Q(10000, 65536)

\* adc_code_to_mV / float(c) * lsb_mV : exact
CodeToMv(c) == QMul(QInt(c), LSB_mV)

\* mV -> volts and back (x / 1000.0, v * 1e3)
MvToVolts(x) == QDiv(x, QInt(1000))
VoltsToMv(v) == QMul(v, QInt(1000))

----------------------------------------------------------------------------
(* Conversions of the session: zero subtraction, millivolts, volts, watts  *)

\* an absent optional argument (log_deadband_mV = None)
NoneQ == [n |-> 0, d |-> 0]
IsNone(x) == x.d = 0

\* a power in watts: a plain value, or 10 ** y for a log-power y
Watts(v) == [k |-> "lin", v |-> v]
WZero == Watts(QZero)
TenTo(y) == [k |-> "pow10", y |-> y]

\* the zero subtraction made conditional on the legacy use_zero argument
ApplyZeroIfAsked(s, codes, uz) ==
    IF s.frontend # LINEAR \/ uz = "False" THEN codes
    ELSE [i \in 1..NUM_HEADS |-> codes[i] - s.linear_zero_adc[i]]

\* _apply_linear_zero_ch (use_zero is accepted by the callers and not passed on)
ApplyZero(s, codes, uz) ==
    IF s.frontend # LINEAR THEN codes
    ELSE [i \in 1..NUM_HEADS |-> codes[i] - s.linear_zero_adc[i]]

\* snapshot_volts: [float(c) * ADC_LSB_VOLTS for c in codes]
SnapshotVolts(s, codes, uz) ==
    [i \in 1..NUM_HEADS |-> MvToVolts(CodeToMv(ApplyZero(s, codes, uz)[i]))]

\* snapshot_mV: [round(float(c) * lsb_mV, 3) for c in codes]
SnapshotMv(s, codes, uz) ==
    [i \in 1..NUM_HEADS |-> QRound(CodeToMv(ApplyZero(s, codes, uz)[i]), 3)]

\* bisect.bisect_left(a, x, lo, hi), 0-based result
RECURSIVE Bisect(_, _, _, _)
Bisect(a, x, lo, hi) ==
    IF lo < hi
    THEN LET mid == (lo + hi) \div 2
         IN  IF QLt(a[mid + 1], x) THEN Bisect(a, x, mid + 1, hi)
             ELSE Bisect(a, x, lo, mid)
    ELSE lo

\* self._loglut_V_V and self._loglut_log10P
LutVolts(s) == [k \in 1..Len(s.loglut_V_mV) |-> Q(s.loglut_V_mV[k], 1000)]
LutLog10P(s) ==
    [k \in 1..Len(s.loglut_log10P_Q16) |-> Q(s.loglut_log10P_Q16[k], 65536)]

\* the lookup without the interpolation: the knot to the left of x
InterpOneLeft(xs, ys, x) ==
    IF QLe(x, xs[1]) THEN ys[1]
    ELSE IF QLe(xs[Len(xs)], x) THEN ys[Len(xs)]
    ELSE ys[Bisect(xs, x, 0, Len(xs))]

\* voltage_to_power_W.interp_one: the interpolated log10 of the power
InterpOne(xs, ys, x) ==
    IF QLe(x, xs[1]) THEN ys[1]
    ELSE IF QLe(xs[Len(xs)], x) THEN ys[Len(xs)]
    ELSE LET j == Bisect(xs, x, 0, Len(xs))
             x0 == xs[j]
             x1 == xs[j + 1]
             y0 == ys[j]
             y1 == ys[j + 1]
         IN  IF x1 = x0 THEN y0
             ELSE QAdd(y0, QMul(QDiv(QSub(x, x0), QSub(x1, x0)), QSub(y1, y0)))

\* voltage_to_power_W on a scalar (the LUT is loaded on every Log session)
VoltageToPower(s, v) == TenTo(InterpOne(LutVolts(s), LutLog10P(s), v))

\* the deadband in force: the argument of the call, or the stored one
Deadband(s, dbarg) == IF IsNone(dbarg) THEN s.log_deadband_mV ELSE dbarg

\* db > 0.0 and abs(x) < db
InDeadband(db, x) == QLt(QZero, db) /\ QLt(QAbs(x), db)

\* the deadband test with the comparison turned around
LogPowerOneNoDeadband(s, mv, db) == VoltageToPower(s, MvToVolts(mv))

\* snapshot_W, Log: one channel
LogPowerOne(s, mv, db) ==
    IF InDeadband(db, mv) THEN WZero ELSE VoltageToPower(s, MvToVolts(mv))

\* snapshot_W on a Log session, from the millivolts snapshot_mV returned
SnapshotWLog(s, mv, dbarg) ==
    [i \in 1..NUM_HEADS |-> LogPowerOne(s, mv[i], Deadband(s, dbarg))]

\* the list index cal[ch][gain] of Python: negative indices count from the
\* end, anything else outside the list is an IndexError (-1 here)
ListIndex(g) ==
    IF g \in 0..(NUM_GAINS - 1) THEN g
    ELSE IF g \in (-NUM_GAINS)..(-1) THEN g + NUM_GAINS ELSE -1

\* round(-log10(power_lsb)) reaches k at slope = 10^(k - 0.5) / 6.5536:
\* the least integer slope (mV/W) of each k = 1..5
DecimalSteps == <<1, 5, 49, 483, 4826>>

\* decimals = 0 if power_lsb <= 0 else max(0, min(12, round(-log10(power_lsb))))
\* (exact for the integer-valued slopes below 48253 mV/W the model's
\* calibration tables hold)
Decimals(slope) ==
    IF QLe(slope, QZero) THEN 0
    ELSE Cardinality({k \in 1..Len(DecimalSteps) : QLe(QInt(DecimalSteps[k]), slope)})

\* the conversion with the test p_w < 0 left out
LinearPowerOneNoClamp(s, slope, intercept, mv) ==
    IF QLt(QAbs(mv), QInt(s.mv_zero_threshold)) THEN WZero
    ELSE Watts(QRound(QDiv(QSub(mv, intercept), slope), Decimals(slope)))

\* the linear conversion of one corrected reading, slope # 0
LinearPowerOne(s, slope, intercept, mv) ==
    IF QLt(QAbs(mv), QInt(s.mv_zero_threshold)) THEN WZero
    ELSE LET p == QDiv(QSub(mv, intercept), slope)
         IN  IF QLt(p, QZero) THEN Watts(QRound(QZero, Decimals(slope)))
             ELSE Watts(QRound(p, Decimals(slope)))

\* the conversion loop with the slope test left out: a channel whose slope
\* is zero reports 0 W and the others are converted
SnapshotWLinearPartial(s, mv, gains) ==
    [err |-> "",
     w |-> [i \in 1..NUM_HEADS |->
              IF s.cal_slope[i][ListIndex(gains[i])] = QZero THEN WZero
              ELSE LinearPowerOne(s, s.cal_slope[i][ListIndex(gains[i])],
                                  s.cal_intercept[i][ListIndex(gains[i])], mv[i])]]

\* the conversion loop of snapshot_W (Linear): the watts of the 4 channels,
\* or the exception the first bad channel raises
SnapshotWLinear(s, mv, gains) ==
    LET bad(i) == \/ ListIndex(gains[i]) < 0
                  \/ s.cal_slope[i][ListIndex(gains[i])] = QZero
        firstbad == IF \E i \in 1..NUM_HEADS : bad(i)
                    THEN CHOOSE i \in 1..NUM_HEADS :
                            bad(i) /\ \A j \in 1..(i - 1) : ~bad(j)
                    ELSE 0
    IN  IF firstbad # 0
        THEN [err |-> IF ListIndex(gains[firstbad]) < 0 THEN "IndexError"
                      ELSE "InvalidCalibration"]
        ELSE [err |-> "",
              w |-> [i \in 1..NUM_HEADS |->
                        LinearPowerOne(s, s.cal_slope[i][ListIndex(gains[i])],
                                       s.cal_intercept[i][ListIndex(gains[i])], mv[i])]]

----------------------------------------------------------------------------
(* The transport: serial.Serial as the driver uses it *)

\* one more access of kind k by thread t (tick tells two equal accesses apart)
IO(t, k) == [by |-> t, kind |-> k, tick |-> 1 - lastIO.tick]

\* _writeln: the command goes out on the wire and reaches the device's queue
Written(t, c) ==
    /\ sent' = Append(sent, [by |-> t, cmd |-> c, id |-> Len(sent) + 1])
    /\ devq' = Append(devq, [cmd |-> c, id |-> Len(sent) + 1])
    /\ lastIO' = IO(t, "write")

\* the bytes of a reply line when they are read as raw data ("OK\n")
LineAsBytes == <<79, 75, 10>>

\* a block of raw bytes decoded and stripped as a text line: no status word
JunkLine(of) == Line("JUNK", <<>>, of)

\* Serial.readline on a non-empty input buffer
ReadLineOf(item) == IF item.k = "line" THEN item ELSE JunkLine(item.of)

\* Serial.read(n) on a non-empty input buffer: the bytes it returns
ReadDataOf(item, n) ==
    LET d == IF item.k = "bytes" THEN item.data ELSE LineAsBytes
    IN  SubSeq(d, 1, Min(n, Len(d)))

\* ... and what stays in the buffer
ReadRestOf(item, n) ==
    LET d == IF item.k = "bytes" THEN item.data ELSE LineAsBytes
    IN  IF Len(d) > n
        THEN <<Bytes(SubSeq(d, n + 1, Len(d)), item.of)>> \o Tail(rx)
        ELSE Tail(rx)

\* with self._lock: entering (the mutant does not wait for the holder)
AcquireNoWait(t) == lock' = t

Acquire(t) == lock = NoThread /\ lock' = t

\* leaving the with block, normally or by an exception
Release == lock' = NoThread

\* an exception leaves the driver call; restore_factory_zero alone catches
\* what its reload raises (try: ... except Exception: pass) and goes on
Unwind(f, e) ==
    IF f.op = "restore_factory_zero" THEN [f EXCEPT !.pc = "restore_except"]
    ELSE [f EXCEPT !.pc = "idle", !.out = Raised(e)]

Return(f, v) == [f EXCEPT !.pc = "idle", !.out = Returned(v)]

\* a thread starts a driver call
Begin(t, op) ==
    [IdleFrame EXCEPT !.op = op, !.calls = th[t].calls + 1,
                      !.budget = th[t].budget]

CanCall(t) == th[t].pc = "idle" /\ th[t].calls < th[t].budget

----------------------------------------------------------------------------
(* CoreDAQ._ask *)

\* the classification of the reply line
AskStatus(line) ==
    IF line.st \in {"OK", "ERR", "BUSY"} THEN line.st ELSE "ERR"

AskLock(t) ==
    /\ th[t].pc = "ask"
    /\ Acquire(t)
    /\ th' = [th EXCEPT ![t].pc = "ask_write"]
    /\ UNCHANGED <<ser_open, rx, devq, sent, lastIO, sess, dev>>

AskWrite(t) ==
    /\ th[t].pc = "ask_write"
    /\ IF ser_open
       THEN /\ Written(t, th[t].cmd)
            /\ th' = [th EXCEPT ![t].pc = "ask_read", ![t].cid = Len(sent) + 1]
            /\ UNCHANGED lock
       ELSE /\ th' = [th EXCEPT ![t] = Unwind(@, "PortNotOpen")]
            /\ Release
            /\ UNCHANGED <<sent, devq, lastIO>>
    /\ UNCHANGED <<ser_open, rx, sess, dev>>

\* the exchange with the lock kept when the read times out
AskReadHold(t) ==
    /\ th[t].pc = "ask_read"
    /\ IF ~ser_open
       THEN /\ th' = [th EXCEPT ![t] = Unwind(@, "PortNotOpen")]
            /\ UNCHANGED <<rx, lastIO>>
       ELSE IF rx = <<>>
       THEN /\ th' = [th EXCEPT ![t] = Unwind(@, "DeviceTimeout")]
            /\ lastIO' = IO(t, "read")
            /\ UNCHANGED rx
       ELSE /\ th' = [th EXCEPT ![t].pc = th[t].ret,
                                ![t].line = ReadLineOf(Head(rx)),
                                ![t].st = AskStatus(ReadLineOf(Head(rx)))]
            /\ rx' = Tail(rx)
            /\ lastIO' = IO(t, "read")
    /\ IF ser_open /\ rx = <<>> THEN UNCHANGED lock ELSE Release
    /\ UNCHANGED <<ser_open, devq, sent, sess, dev>>

AskRead(t) ==
    /\ th[t].pc = "ask_read"
    /\ IF ~ser_open
       THEN /\ th' = [th EXCEPT ![t] = Unwind(@, "PortNotOpen")]
            /\ UNCHANGED <<rx, lastIO>>
       ELSE IF rx = <<>>
       THEN /\ th' = [th EXCEPT ![t] = Unwind(@, "DeviceTimeout")]
            /\ lastIO' = IO(t, "read")
            /\ UNCHANGED rx
       ELSE /\ th' = [th EXCEPT ![t].pc = th[t].ret,
                                ![t].line = ReadLineOf(Head(rx)),
                                ![t].st = AskStatus(ReadLineOf(Head(rx)))]
            /\ rx' = Tail(rx)
            /\ lastIO' = IO(t, "read")
    /\ Release
    /\ UNCHANGED <<ser_open, devq, sent, sess, dev>>

\* a call of _ask(c) that continues at label ret
Ask(f, c, ret) == [f EXCEPT !.pc = "ask", !.cmd = c, !.ret = ret]

----------------------------------------------------------------------------
(* Operations that are one exchange: idn, i2c_refresh, start_acquisition,  *)
(* stop_acquisition, acquisition_status                                    *)

SimpleCmds ==
    [idn |-> Cmd("IDN?", <<>>), i2c_refresh |-> Cmd("I2C REFRESH", <<>>),
     start_acquisition |-> Cmd("ACQ START", <<>>),
     stop_acquisition |-> Cmd("ACQ STOP", <<>>),
     acquisition_status |-> Cmd("STREAM?", <<>>)]

SimpleCall(t, op) ==
    /\ CanCall(t)
    /\ th' = [th EXCEPT ![t] = Ask(Begin(t, op), SimpleCmds[op], "simple_ret")]
    /\ UNCHANGED <<lock, ser_open, rx, devq, sent, lastIO, sess, dev>>

SimpleRet(t) ==
    /\ th[t].pc = "simple_ret"
    /\ th' = [th EXCEPT ![t] =
                IF th[t].st # "OK" THEN Unwind(@, "ProtocolError")
                ELSE Return(@, th[t].line.pl)]
    /\ UNCHANGED <<lock, ser_open, rx, devq, sent, lastIO, sess, dev>>

----------------------------------------------------------------------------
(* CoreDAQ.close *)

Close(t) ==
    /\ CanCall(t)
    /\ th' = [th EXCEPT ![t] = Return(Begin(t, "close"), <<>>)]
    /\ IF ser_open
       THEN rx' = <<>> /\ ser_open' = FALSE /\ lastIO' = IO(t, "reset")
       ELSE UNCHANGED <<rx, ser_open, lastIO>>
    /\ UNCHANGED <<lock, devq, sent, sess, dev>>

----------------------------------------------------------------------------
(* CoreDAQ.transfer_frames_adc *)

\* one element of array('h'): two bytes, little-endian, two's complement
S16(lo, hi) ==
    LET u == lo + 256 * hi IN IF u >= 32768 THEN u - 65536 ELSE u

\* array('h').frombytes(buf)
Samples(buf) == [k \in 1..(Len(buf) \div 2) |-> S16(buf[2 * k - 1], buf[2 * k])]

\* samples[c-1::4], c = 1..4
Stride(s, c) ==
    [i \in 1..((Len(s) - c + NUM_HEADS) \div NUM_HEADS) |-> s[(i - 1) * NUM_HEADS + c]]

\* the decode with the two bytes of a sample taken in the wrong order
DeinterleaveSwapped(buf) ==
    LET s == [k \in 1..(Len(buf) \div 2) |-> S16(buf[2 * k], buf[2 * k - 1])]
    IN  [c \in 1..NUM_HEADS |-> Stride(s, c)]

\* [ch1, ch2, ch3, ch4]
Deinterleave(buf) == [c \in 1..NUM_HEADS |-> Stride(Samples(buf), c)]

TransferOps ==
    {"transfer_frames_adc", "transfer_frames_mV", "transfer_frames_volts",
     "transfer_frames_W"}

\* the guard on frames and the byte count; the frame enters the with block
XferBegin(f, frames) ==
    IF frames <= 0 THEN Unwind(f, "ValueError")
    ELSE [f EXCEPT !.pc = "xfer_lock", !.frames = frames,
                   !.need = frames * BYTES_PER_FRAME]

XferLock(t) ==
    /\ th[t].pc = "xfer_lock"
    /\ Acquire(t)
    /\ th' = [th EXCEPT ![t].pc = "xfer_reset"]
    /\ UNCHANGED <<ser_open, rx, devq, sent, lastIO, sess, dev>>

\* ser.reset_input_buffer()
XferReset(t) ==
    /\ th[t].pc = "xfer_reset"
    /\ IF ser_open
       THEN /\ rx' = <<>>
            /\ lastIO' = IO(t, "reset")
            /\ th' = [th EXCEPT ![t].pc = "xfer_write"]
            /\ UNCHANGED lock
       ELSE /\ th' = [th EXCEPT ![t] = Unwind(@, "PortNotOpen")]
            /\ Release
            /\ UNCHANGED <<rx, lastIO>>
    /\ UNCHANGED <<ser_open, devq, sent, sess, dev>>

\* self._writeln(f"XFER {bytes_needed}"); ser.flush()
XferWrite(t) ==
    /\ th[t].pc = "xfer_write"
    /\ IF ser_open
       THEN /\ Written(t, Cmd("XFER", <<th[t].need>>))
            /\ th' = [th EXCEPT ![t].pc = "xfer_line", ![t].cid = Len(sent) + 1,
                                ![t].cmd = Cmd("XFER", <<th[t].need>>)]
            /\ UNCHANGED lock
       ELSE /\ th' = [th EXCEPT ![t] = Unwind(@, "PortNotOpen")]
            /\ Release
            /\ UNCHANGED <<sent, devq, lastIO>>
    /\ UNCHANGED <<ser_open, rx, sess, dev>>

\* line = self._readline(); refused unless it starts with OK
XferLine(t) ==
    /\ th[t].pc = "xfer_line"
    /\ IF ~ser_open
       THEN /\ th' = [th EXCEPT ![t] = Unwind(@, "PortNotOpen")]
            /\ Release
            /\ UNCHANGED <<rx, lastIO>>
       ELSE IF rx = <<>>
       THEN /\ th' = [th EXCEPT ![t] = Unwind(@, "DeviceTimeout")]
            /\ Release
            /\ lastIO' = IO(t, "read")
            /\ UNCHANGED rx
       ELSE /\ rx' = Tail(rx)
            /\ lastIO' = IO(t, "read")
            /\ IF ReadLineOf(Head(rx)).st = "OK"
               THEN /\ th' = [th EXCEPT ![t].pc = "xfer_data",
                                        ![t].line = ReadLineOf(Head(rx)),
                                        ![t].buf = <<>>]
                    /\ UNCHANGED lock
               ELSE /\ th' = [th EXCEPT ![t] = Unwind(@, "XferRefused")]
                    /\ Release
    /\ UNCHANGED <<ser_open, devq, sent, sess, dev>>

\* the read loop left by a break: the zero-filled rest of buf is decoded
ShortReadPartial(f) ==
    [f EXCEPT !.pc = "xfer_decode",
              !.buf = f.buf \o [k \in 1..(f.need - Len(f.buf)) |-> 0]]

\* if not r: raise TimeoutError("USB read timeout at got/bytes_needed bytes")
ShortRead(f) == Unwind(f, "ShortRead")

\* one turn of the read loop: r = ser.read(min(chunk, bytes_needed - got))
XferData(t) ==
    /\ th[t].pc = "xfer_data"
    /\ IF ~ser_open
       THEN /\ th' = [th EXCEPT ![t] = Unwind(@, "PortNotOpen")]
            /\ Release
            /\ UNCHANGED <<rx, lastIO>>
       ELSE IF rx = <<>>
       THEN /\ th' = [th EXCEPT ![t] = ShortRead(@)]
            /\ Release
            /\ lastIO' = IO(t, "read")
            /\ UNCHANGED rx
       ELSE LET want == th[t].need - Len(th[t].buf)
                got == th[t].buf \o ReadDataOf(Head(rx), want)
            IN  /\ rx' = ReadRestOf(Head(rx), want)
                /\ lastIO' = IO(t, "read")
                /\ IF Len(got) < th[t].need
                   THEN /\ th' = [th EXCEPT ![t].buf = got]
                        /\ UNCHANGED lock
                   ELSE /\ th' = [th EXCEPT ![t].buf = got, ![t].pc = "xfer_decode"]
                        /\ Release
    /\ UNCHANGED <<ser_open, devq, sent, sess, dev>>

\* the subtraction in transfer_frames_mV made conditional on use_zero
TransferZeroIfAsked(s, h, code, uz) ==
    IF uz = "False" THEN code ELSE code - s.linear_zero_adc[h]

\* code - z, z = int(self._linear_zero_adc[head_idx])
TransferZero(s, h, code, uz) == code - s.linear_zero_adc[h]

\* transfer_frames_mV from the decoded channels
TransferMv(s, ch, uz, dbarg) ==
    IF s.frontend = LINEAR
    THEN [h \in 1..NUM_HEADS |->
            [i \in 1..Len(ch[h]) |-> CodeToMv(TransferZero(s, h, ch[h][i], uz))]]
    ELSE [h \in 1..NUM_HEADS |->
            [i \in 1..Len(ch[h]) |->
                IF InDeadband(Deadband(s, dbarg), CodeToMv(ch[h][i])) THEN QZero
                ELSE CodeToMv(ch[h][i])]]

\* transfer_frames_volts: transfer_frames_mV(frames, use_zero=use_zero) / 1000
TransferVolts(s, ch, uz) ==
    LET mv == TransferMv(s, ch, uz, NoneQ)
    IN  [h \in 1..NUM_HEADS |-> [i \in 1..Len(mv[h]) |-> MvToVolts(mv[h][i])]]

\* transfer_frames_W, Log: one sample, from its volts
TransferWLogOne(s, v, db) ==
    IF InDeadband(db, VoltsToMv(v)) THEN WZero ELSE VoltageToPower(s, v)

\* transfer_frames_W on a Log session
TransferWLog(s, ch, dbarg) ==
    LET v == TransferVolts(s, ch, "None")
    IN  [h \in 1..NUM_HEADS |->
            [i \in 1..Len(v[h]) |-> TransferWLogOne(s, v[h][i], Deadband(s, dbarg))]]

\* transfer_frames_W on a Linear session, from the millivolts and the gains
TransferWLinear(s, mv, gains) ==
    LET bad(h) == \/ ListIndex(gains[h]) < 0
                  \/ s.cal_slope[h][ListIndex(gains[h])] = QZero
        firstbad == IF \E h \in 1..NUM_HEADS : bad(h)
                    THEN CHOOSE h \in 1..NUM_HEADS :
                            bad(h) /\ \A j \in 1..(h - 1) : ~bad(j)
                    ELSE 0
    IN  IF firstbad # 0
        THEN [err |-> IF ListIndex(gains[firstbad]) < 0 THEN "IndexError"
                      ELSE "InvalidCalibration"]
        ELSE [err |-> "",
              w |-> [h \in 1..NUM_HEADS |->
                      [i \in 1..Len(mv[h]) |->
                         LinearPowerOne(s, s.cal_slope[h][ListIndex(gains[h])],
                                        s.cal_intercept[h][ListIndex(gains[h])],
                                        mv[h][i])]]]

\* the parse of an OK reply to GAINS? (HEAD and = replaced, then split):
\* every second part is a gain, and there must be 4 of them
GainsParse(pl) ==
    LET at == {i \in 1..Len(pl) : i % 2 = 0}
    IN  IF Cardinality(at) # NUM_HEADS \/ \E i \in at : pl[i].t # "int"
        THEN [ok |-> FALSE]
        ELSE [ok |-> TRUE, gains |-> [h \in 1..NUM_HEADS |-> pl[2 * h].v]]

\* samples -> channels, the length check, and what the caller of the raw
\* transfer makes of it: the raw channels, millivolts, volts or watts; on
\* a Linear session the watts need the gains, read by get_gains
XferDecode(t) ==
    /\ th[t].pc = "xfer_decode"
    /\ LET f == th[t]
           ch == Deinterleave(f.buf)
       IN  th' = [th EXCEPT ![t] =
             IF Len(ch[1]) # f.frames THEN Unwind(@, "DecodeMismatch")
             ELSE CASE f.op = "transfer_frames_adc" -> Return(@, ch)
                    [] f.op = "transfer_frames_mV" ->
                          Return(@, TransferMv(sess, ch, f.uz, f.db))
                    [] f.op = "transfer_frames_volts" ->
                          Return(@, TransferVolts(sess, ch, f.uz))
                    [] f.op = "transfer_frames_W" /\ sess.frontend = LOG ->
                          Return(@, TransferWLog(sess, ch, f.db))
                    [] OTHER ->
                          Ask([@ EXCEPT !.mv = TransferMv(sess, ch, "None", NoneQ)],
                              Cmd("GAINS?", <<>>), "xfer_gains")]
    /\ UNCHANGED <<lock, ser_open, rx, devq, sent, lastIO, sess, dev>>

\* get_gains has answered: the Linear watts
XferGains(t) ==
    /\ th[t].pc = "xfer_gains"
    /\ LET f == th[t]
           g == GainsParse(f.line.pl)
           r == TransferWLinear(sess, f.mv, g.gains)
       IN  th' = [th EXCEPT ![t] =
                    IF f.st # "OK" \/ ~g.ok THEN Unwind(@, "ProtocolError")
                    ELSE IF r.err # "" THEN Unwind(@, r.err)
                    ELSE Return([@ EXCEPT !.gains = g.gains], r.w)]
    /\ UNCHANGED <<lock, ser_open, rx, devq, sent, lastIO, sess, dev>>

\* transfer_frames_adc / _mV / _volts / _W (frames, use_zero, log_deadband_mV)
TransferCall(t, op, frames, uz, dbarg) ==
    /\ CanCall(t)
    /\ op \in TransferOps
    /\ th' = [th EXCEPT ![t] =
                XferBegin([Begin(t, op) EXCEPT !.uz = uz, !.db = dbarg], frames)]
    /\ UNCHANGED <<lock, ser_open, rx, devq, sent, lastIO, sess, dev>>

----------------------------------------------------------------------------
(* Reply payloads are token lists (payload.split()): an integer, a         *)
(* key=value pair, or any other word                                       *)

I(v) == [t |-> "int", k |-> "", v |-> v]
KV(k, v) == [t |-> "kv", k |-> k, v |-> v]
W(k) == [t |-> "word", k |-> k, v |-> 0]

AllInt(pl, lo, hi) == \A i \in lo..hi : pl[i].t = "int"

\* a word made of a letter and a number (H1, G0)
WN(k, n) == [t |-> "word", k |-> k, v |-> n]
\* key=value whose value does not parse as a number
KVW(k) == [t |-> "kvw", k |-> k, v |-> 0]
\* key=value whose value is hex digits: the 16-bit halves <<hi, lo>> of the
\* number they spell (hi > 65535: more than 8 digits)
KX(k, b) == [t |-> "hex", k |-> k, x |-> b]

\* the tokens that start with "<key>="
Keyed(pl, key) ==
    {i \in 1..Len(pl) : pl[i].t \in {"kv", "kvw", "hex"} /\ pl[i].k = key}

First(X) == CHOOSE i \in X : \A j \in X : i <= j
Last(X) == CHOOSE i \in X : \A j \in X : j <= i

----------------------------------------------------------------------------
(* CoreDAQ.snapshot_adc and the snapshot conversions                       *)

\* the parse of an OK reply to SNAP?: codes and gains, or ok = FALSE
SnapParse(pl) ==
    IF Len(pl) < NUM_HEADS \/ ~AllInt(pl, 1, NUM_HEADS)
    THEN [ok |-> FALSE]
    ELSE LET G == {i \in 1..Len(pl) : pl[i].t = "kv" /\ pl[i].k = "G"}
             gi == CHOOSE i \in G : \A j \in G : i <= j
             codes == [i \in 1..NUM_HEADS |-> pl[i].v]
         IN  IF G = {} THEN [ok |-> TRUE, codes |-> codes, gains |-> <<0, 0, 0, 0>>]
             ELSE IF gi + 3 > Len(pl) \/ ~AllInt(pl, gi + 1, gi + 3) THEN [ok |-> FALSE]
             ELSE [ok |-> TRUE, codes |-> codes,
                   gains |-> <<pl[gi].v, pl[gi + 1].v, pl[gi + 2].v, pl[gi + 3].v>>]

\* a call of snapshot_adc(n_frames = 1) that continues at label sret
Snap(f, sret) == Ask([f EXCEPT !.sret = sret], Cmd("SNAP", <<1>>), "snap_armed")

\* the reply to SNAP <n>
SnapArmed(t) ==
    /\ th[t].pc = "snap_armed"
    /\ th' = [th EXCEPT ![t] =
                IF th[t].st # "OK" THEN Unwind(@, "ProtocolError")
                ELSE Ask(@, Cmd("SNAP?", <<>>), "snap_poll")]
    /\ UNCHANGED <<lock, ser_open, rx, devq, sent, lastIO, sess, dev>>

\* the reply to SNAP?: BUSY polls again until timeout_s has passed
SnapPoll(t) ==
    /\ th[t].pc = "snap_poll"
    /\ \E expired \in BOOLEAN :
         th' = [th EXCEPT ![t] =
                  IF th[t].st = "BUSY"
                  THEN IF expired THEN Unwind(@, "SnapshotTimeout")
                       ELSE Ask(@, Cmd("SNAP?", <<>>), "snap_poll")
                  ELSE IF th[t].st # "OK" \/ ~SnapParse(th[t].line.pl).ok
                  THEN Unwind(@, "ProtocolError")
                  ELSE [@ EXCEPT !.pc = th[t].sret,
                                 !.codes = SnapParse(th[t].line.pl).codes,
                                 !.gains = SnapParse(th[t].line.pl).gains]]
    /\ UNCHANGED <<lock, ser_open, rx, devq, sent, lastIO, sess, dev>>

SnapshotOps == {"snapshot_adc", "snapshot_volts", "snapshot_mV", "snapshot_W"}

\* snapshot_adc, snapshot_volts, snapshot_mV(use_zero)
SnapshotCall(t, op, uz) ==
    /\ CanCall(t)
    /\ op \in {"snapshot_adc", "snapshot_volts", "snapshot_mV"}
    /\ th' = [th EXCEPT ![t] = Snap([Begin(t, op) EXCEPT !.uz = uz], "snap_ret")]
    /\ UNCHANGED <<lock, ser_open, rx, devq, sent, lastIO, sess, dev>>

\* snapshot_W(use_zero, autogain, min_mv, max_mv, max_iters, log_deadband_mV):
\* Log takes one snapshot; Linear enters the autogain loop, or, with
\* autogain off or no iteration to run, takes the final snapshot
SnapshotWCall(t, uz, ag, lo, hi, iters, dbarg) ==
    /\ CanCall(t)
    /\ LET f == [Begin(t, "snapshot_W") EXCEPT
                    !.uz = uz, !.autogain = ag, !.min_mv = lo, !.max_mv = hi,
                    !.max_iters = iters, !.db = dbarg]
       IN  th' = [th EXCEPT ![t] =
                    IF sess.frontend = LOG THEN Snap(f, "snap_ret")
                    ELSE IF ag /\ iters > 0 THEN Snap([f EXCEPT !.iter = 1], "ag_snapped")
                    ELSE Snap(f, "snap_ret")]
    /\ UNCHANGED <<lock, ser_open, rx, devq, sent, lastIO, sess, dev>>

\* the value a snapshot operation returns from the codes and gains read
SnapshotResult(s, f) ==
    CASE f.op = "snapshot_adc" -> Returned([codes |-> f.codes, gains |-> f.gains])
      [] f.op = "snapshot_volts" ->
            Returned([v |-> SnapshotVolts(s, f.codes, f.uz), gains |-> f.gains])
      [] f.op = "snapshot_mV" ->
            Returned([mv |-> SnapshotMv(s, f.codes, f.uz), gains |-> f.gains])
      [] f.op = "snapshot_W" /\ s.frontend = LOG ->
            Returned([w |-> SnapshotWLog(s, SnapshotMv(s, f.codes, f.uz), f.db)])
      [] OTHER ->
            LET mv == SnapshotMv(s, f.codes, f.uz)
                r == SnapshotWLinear(s, mv, f.gains)
            IN  IF r.err # "" THEN Raised(r.err)
                ELSE Returned([w |-> r.w, mv |-> mv, gains |-> f.gains])

\* the snapshot is in: convert and return
SnapRet(t) ==
    /\ th[t].pc = "snap_ret"
    /\ th' = [th EXCEPT ![t] =
                [@ EXCEPT !.pc = "idle", !.out = SnapshotResult(sess, th[t]),
                          !.ev = Append(th[t].ev, <<"snap">>)]]
    /\ UNCHANGED <<lock, ser_open, rx, devq, sent, lastIO, sess, dev>>

----------------------------------------------------------------------------
(* The autogain loop of snapshot_W (Linear)                                *)

\* the rule with the limit on the most sensitive gain forgotten
AutogainTargetNoTop(vabs, g, lo, hi) ==
    IF QLt(vabs, lo) THEN g + 1
    ELSE IF QLt(hi, vabs) /\ g > 0 THEN g - 1
    ELSE g

\* the gain one channel is moved to: g itself when it is left alone
AutogainTarget(vabs, g, lo, hi) ==
    IF QLt(vabs, lo) /\ g < NUM_GAINS - 1 THEN g + 1
    ELSE IF QLt(hi, vabs) /\ g > 0 THEN g - 1
    ELSE g

\* every channel from c on written to, in range or not
ToAdjustAll(f, c) == c..NUM_HEADS

\* the channels from c on that the current iteration still has to adjust
ToAdjust(f, c) ==
    {ch \in c..NUM_HEADS :
        AutogainTarget(QAbs(f.mv[ch]), f.gains[ch], f.min_mv, f.max_mv) # f.gains[ch]}

\* mv_now, gains = self.snapshot_mV(...); changed = False
AgSnapped(t) ==
    /\ th[t].pc = "ag_snapped"
    /\ th' = [th EXCEPT ![t] =
                [@ EXCEPT !.pc = "ag_scan", !.chi = 1, !.changed = FALSE,
                          !.mv = SnapshotMv(sess, th[t].codes, th[t].uz),
                          !.ev = Append(th[t].ev, <<"snap">>)]]
    /\ UNCHANGED <<lock, ser_open, rx, devq, sent, lastIO, sess, dev>>

\* the channel loop up to the next set_gain call; after the last channel
\* the loop breaks, or sleeps and goes round again while iterations are left;
\* the final snapshot follows the loop
AgScan(t) ==
    /\ th[t].pc = "ag_scan"
    /\ LET f == th[t]
           todo == ToAdjust(f, f.chi)
           ch == CHOOSE c \in todo : \A e \in todo : c <= e
           v == AutogainTarget(QAbs(f.mv[ch]), f.gains[ch], f.min_mv, f.max_mv)
       IN  th' = [th EXCEPT ![t] =
                    IF todo # {}
                    THEN IF v \notin 0..(NUM_GAINS - 1) THEN Unwind(@, "ValueError")
                         ELSE Ask([@ EXCEPT !.chi = ch,
                                            !.ev = Append(f.ev, <<"gain", ch, v>>)],
                                  Cmd("GAIN", <<ch, v>>), "ag_gain_ret")
                    ELSE IF ~f.changed THEN Snap(@, "snap_ret")
                    ELSE IF f.iter < f.max_iters
                    THEN Snap([@ EXCEPT !.iter = f.iter + 1,
                                        !.ev = Append(f.ev, <<"settle">>)], "ag_snapped")
                    ELSE Snap([@ EXCEPT !.ev = Append(f.ev, <<"settle">>)], "snap_ret")]
    /\ UNCHANGED <<lock, ser_open, rx, devq, sent, lastIO, sess, dev>>

\* set_gain after its exchange: refused, or settled and changed = True
AgGainRet(t) ==
    /\ th[t].pc = "ag_gain_ret"
    /\ th' = [th EXCEPT ![t] =
                IF th[t].st # "OK" THEN Unwind(@, "ProtocolError")
                ELSE [@ EXCEPT !.pc = "ag_scan", !.changed = TRUE,
                               !.chi = th[t].chi + 1]]
    /\ UNCHANGED <<lock, ser_open, rx, devq, sent, lastIO, sess, dev>>

----------------------------------------------------------------------------
(* The device *)

\* byte k of the payload pattern p = <<a, b>>
PatByte(p, k) == (p[1] * k + p[2]) % 256

Payload(p, n) == [k \in 1..n |-> PatByte(p, k)]

\* a payload as the blocks one read call each returns: cut once at `at`
Chunks(data, at, of) ==
    IF Len(data) = 0 THEN <<>>
    ELSE IF at <= 0 \/ at >= Len(data) THEN <<Bytes(data, of)>>
    ELSE <<Bytes(SubSeq(data, 1, at), of), Bytes(SubSeq(data, at + 1, Len(data)), of)>>

\* the replies to XFER <n>: refused; or OK and the payload, all of it or
\* with its last bytes missing
XferReplies(n, of, P) ==
    {<<Line("ERR", <<>>, of)>>}
    \cup {<<Line("OK", <<>>, of)>> \o Chunks(SubSeq(Payload(p, n), 1, Max(0, n - s)), at, of) :
            p \in P.pats, s \in P.shorts, at \in P.cuts}

\* struct "<H" and "<i" as the device packs them
U16Bytes(v) == <<v % 256, (v \div 256) % 256>>
I32Bytes(q) ==
    <<q % 256, (q \div 256) % 256, (q \div 65536) % 256, (q \div 16777216) % 256>>

\* the LOGCAL payload of a table of <<V_mV, log10P_Q16>> records
RECURSIVE LutBytes(_)
LutBytes(lut) ==
    IF lut = <<>> THEN <<>>
    ELSE U16Bytes(Head(lut)[1]) \o I32Bytes(Head(lut)[2]) \o LutBytes(Tail(lut))

\* the LOGCAL stream: header, payload (its last `short` bytes missing), terminator
LogcalStream(lut, hdr, short, done, of) ==
    <<Line("OK", hdr, of)>>
    \o Chunks(SubSeq(LutBytes(lut), 1, Max(0, Len(LutBytes(lut)) - short)), 0, of)
    \o (IF done THEN <<Line("OK", <<W("DONE")>>, of)>> ELSE <<>>)

LogcalHeader(n, rb) == <<WN("H", 1), KV("N", n), KV("RB", rb)>>

\* the answers to LOGCAL 1: the table in full, after an echoed line, with
\* another record size, cut short, unterminated, with an unreadable count,
\* without the head token, or a refusal
LogcalReplies(of, P) ==
    {LogcalStream(l, LogcalHeader(Len(l), 6), 0, TRUE, of) : l \in P.luts}
    \cup {<<Line("LOGCAL", <<>>, of)>> \o LogcalStream(l, LogcalHeader(Len(l), 6), 0, TRUE, of) :
            l \in P.luts}
    \cup {LogcalStream(l, LogcalHeader(Len(l), 4), 0, TRUE, of) : l \in P.luts}
    \cup {LogcalStream(l, LogcalHeader(Len(l), 6), 2, TRUE, of) : l \in P.luts}
    \cup {LogcalStream(l, LogcalHeader(Len(l), 6), 0, FALSE, of) : l \in P.luts}
    \cup {LogcalStream(l, <<WN("H", 1), KVW("N"), KV("RB", 6)>>, 0, TRUE, of) : l \in P.luts}
    \cup {LogcalStream(l, <<KV("N", Len(l)), KV("RB", 6)>>, 0, TRUE, of) : l \in P.luts}
    \cup {<<Line("ERR", <<>>, of)>>}

\* the answer to CAL h g from the table cell c = [s, i] (float32 bit
\* patterns as two 16-bit halves), and the faulty answers
CalPl(h, g, c) == <<WN("H", h), WN("G", g), KX("S", c.s), KX("I", c.i)>>

CalReplies(h, g, of, P) ==
    {<<Line("OK", CalPl(h, g, P.cal[h][g]), of)>>}
    \cup {<<Line("OK", pl, of)>> : pl \in P.calfaults}
    \cup {<<Line(st, <<>>, of)>> : st \in P.sts \ {"OK"}}

\* the replies of the device to command c (id `of`) under profile P
DevReplies(c, of, P) ==
    CASE c.name = "XFER" -> XferReplies(c.args[1], of, P)
      [] c.name = "HEAD_TYPE?" ->
            {<<Line("OK", txt, of)>> : txt \in P.heads}
            \cup {<<Line(st, <<>>, of)>> : st \in P.sts \ {"OK"}}
      [] c.name = "CAL" -> CalReplies(c.args[1], c.args[2], of, P)
      [] c.name = "FACTORY_ZEROS?" ->
            {<<Line("OK", pl, of)>> : pl \in P.zerosq}
            \cup {<<Line(st, <<>>, of)>> : st \in P.sts \ {"OK"}}
      [] c.name = "LOGCAL" -> LogcalReplies(of, P)
      [] c.name = "SNAP?" ->
            {<<Line("OK", pl, of)>> : pl \in P.snaps}
            \cup {<<Line(st, <<>>, of)>> : st \in P.sts \ {"OK"}}
      [] c.name = "GAINS?" ->
            {<<Line("OK", pl, of)>> : pl \in P.gainsq}
            \cup {<<Line(st, <<>>, of)>> : st \in P.sts \ {"OK"}}
      [] c.name = "STATE?" ->
            {<<Line("OK", pl, of)>> : pl \in P.states}
            \cup {<<Line(st, <<>>, of)>> : st \in P.sts \ {"OK"}}
      [] c.name = "TEMP?" ->
            {<<Line("OK", pl, of)>> : pl \in P.temps}
            \cup {<<Line(st, <<>>, of)>> : st \in P.sts \ {"OK"}}
      [] OTHER -> {<<Line(st, <<>>, of)>> : st \in P.sts}

\* the raw bytes of a reply, in order
RECURSIVE DataOf(_)
DataOf(r) ==
    IF r = <<>> THEN <<>>
    ELSE (IF Head(r).k = "bytes" THEN Head(r).data ELSE <<>>) \o DataOf(Tail(r))

\* the device answers the oldest command it has not answered yet; it
\* remembers the payload of the last XFER it served
DevReply(P) ==
    /\ devq # <<>>
    /\ \E r \in DevReplies(Head(devq).cmd, Head(devq).id, P) :
          /\ rx' = rx \o r
          /\ dev' = IF Head(devq).cmd.name = "XFER" /\ Head(r).st = "OK"
                    THEN [dev EXCEPT !.payload = DataOf(r), !.xfer = Head(devq).id]
                    ELSE dev
    /\ devq' = Tail(devq)
    /\ UNCHANGED <<th, lock, ser_open, sent, lastIO, sess>>

\* the device is still averaging or acquiring: it answers a poll (SNAP?,
\* STATE?) with BUSY
DevBusy ==
    /\ devq # <<>>
    /\ Head(devq).cmd.name \in {"SNAP?", "STATE?"}
    /\ dev.busy < MaxBusy
    /\ rx' = Append(rx, Line("BUSY", <<>>, Head(devq).id))
    /\ devq' = Tail(devq)
    /\ dev' = [dev EXCEPT !.busy = dev.busy + 1]
    /\ UNCHANGED <<th, lock, ser_open, sent, lastIO, sess>>

----------------------------------------------------------------------------
(* Concurrent callers on one constructed session *)

ConcThreads == {1, 2}

ConcProfile ==
    [sts |-> {"OK", "ERR"}, pats |-> {<<37, 200>>}, shorts |-> {0, 3}, cuts |-> {0, 5},
     snaps |-> {}, gainsq |-> {}]

\* the fields of a session (before construction has filled them)
Sess0 ==
    [frontend |-> "",
     cal_slope |-> [h \in 1..NUM_HEADS |-> [g \in 0..(NUM_GAINS - 1) |-> QZero]],
     cal_intercept |-> [h \in 1..NUM_HEADS |-> [g \in 0..(NUM_GAINS - 1) |-> QZero]],
     mv_zero_threshold |-> 0,
     factory_zero_adc |-> <<0, 0, 0, 0>>,
     linear_zero_adc |-> <<0, 0, 0, 0>>,
     lut_loaded |-> FALSE,
     loglut_V_mV |-> <<>>,
     loglut_log10P_Q16 |-> <<>>,
     log_deadband_mV |-> QInt(300),
     ready |-> FALSE]

Dev0 == [head |-> <<>>, busy |-> 0, payload |-> <<>>, xfer |-> 0]

InitConc ==
    /\ th = [t \in ConcThreads |-> [IdleFrame EXCEPT !.budget = MaxCalls]]
    /\ lock = NoThread
    /\ ser_open = TRUE
    /\ rx = <<>>
    /\ devq = <<>>
    /\ sent = <<>>
    /\ lastIO = [by |-> NoThread, kind |-> "none", tick |-> 0]
    /\ sess \in {[Sess0 EXCEPT !.frontend = LOG, !.lut_loaded = TRUE, !.ready = TRUE,
                               !.loglut_V_mV = <<0, 1000>>,
                               !.loglut_log10P_Q16 = <<-9, -6>>]}
    /\ dev = Dev0

NextConc ==
    \/ \E t \in Threads : SimpleCall(t, "idn")
    \/ \E t \in Threads : SimpleRet(t)
    \/ \E t \in Threads : AskLock(t)
    \/ \E t \in Threads : AskWrite(t)
    \/ \E t \in Threads : AskRead(t)
    \/ \E t \in Threads : TransferCall(t, "transfer_frames_adc", 1, "None", NoneQ)
    \/ \E t \in Threads : XferLock(t)
    \/ \E t \in Threads : XferReset(t)
    \/ \E t \in Threads : XferWrite(t)
    \/ \E t \in Threads : XferLine(t)
    \/ \E t \in Threads : XferData(t)
    \/ \E t \in Threads : XferDecode(t)
    \/ \E t \in Threads : Close(t)
    \/ DevReply(ConcProfile)

SpecConc == InitConc /\ [][NextConc]_vars

\* a caller has written its command and not yet read all of the reply
InExchange(t) == th[t].pc \in {"ask_read", "xfer_line", "xfer_data"}

\* C1: while a caller is between writing its command and reading the last
\* byte of the reply (reply line; for XFER the OK line and every payload
\* chunk), every command written to, and every read from, the transport is
\* that caller's own.
C1_ExchangeAtomic ==
    [][\A t \in Threads :
          (InExchange(t) /\ lastIO' # lastIO /\ lastIO'.kind \in {"write", "read"})
              => lastIO'.by = t]_vars

\* C1 witness: one caller is part-way through the payload of an XFER while
\* the other has called the driver and waits for the lock
C1_Witness ==
    \E t, u \in Threads :
        /\ t # u
        /\ th[t].pc = "xfer_data" /\ Len(th[t].buf) > 0
        /\ th[u].pc \in {"ask", "xfer_lock"}
        /\ lock = t

----------------------------------------------------------------------------
(* Sessions as construction leaves them *)

\* calibration cells as CAL reports them: slope (mV/W) and intercept (mV)
CalSlopeA ==
    [h \in 1..NUM_HEADS |-> [g \in 0..(NUM_GAINS - 1) |-> QInt(10 * h * (g + 1))]]
CalInterceptA ==
    [h \in 1..NUM_HEADS |-> [g \in 0..(NUM_GAINS - 1) |-> QInt(h + g - 4)]]

FactoryZerosA == <<10, 0, -7, 836>>

SessLinear ==
    [Sess0 EXCEPT !.frontend = LINEAR, !.ready = TRUE, !.cal_slope = CalSlopeA,
                  !.cal_intercept = CalInterceptA,
                  !.factory_zero_adc = FactoryZerosA, !.linear_zero_adc = FactoryZerosA]

\* a LUT of three knots: 0 V, 0.2 V, 1 V -> 1e-9, 1e-6, 1e-3 W
SessLog ==
    [Sess0 EXCEPT !.frontend = LOG, !.lut_loaded = TRUE, !.ready = TRUE,
                  !.loglut_V_mV = <<0, 200, 1000>>,
                  !.loglut_log10P_Q16 = <<-589824, -393216, -196608>>]

IdleWire ==
    /\ lock = NoThread
    /\ ser_open = TRUE
    /\ rx = <<>>
    /\ devq = <<>>
    /\ sent = <<>>
    /\ lastIO = [by |-> NoThread, kind |-> "none", tick |-> 0]
    /\ dev = Dev0

\* GAINS? payloads: HEADn=g for the 4 heads
GainsPl(g) == <<I(1), I(g[1]), I(2), I(g[2]), I(3), I(g[3]), I(4), I(g[4])>>

----------------------------------------------------------------------------
(* One caller, bulk transfers *)

XferProfile ==
    [sts |-> {"OK", "ERR"},
     pats |-> {<<0, 0>>, <<37, 200>>, <<1, 127>>},
     shorts |-> {0, 1, 10}, cuts |-> {0, 5},
     snaps |-> {}, gainsq |-> {}]

InitXfer ==
    /\ th = [t \in {1} |-> [IdleFrame EXCEPT !.budget = MaxSeqCalls]]
    /\ sess \in {SessLinear, SessLog}
    /\ IdleWire

NextXfer ==
    \/ \E t \in Threads : SimpleCall(t, "idn")
    \/ \E t \in Threads : SimpleRet(t)
    \/ \E t \in Threads : AskLock(t)
    \/ \E t \in Threads : AskWrite(t)
    \/ \E t \in Threads : AskRead(t)
    \/ \E t \in Threads, n \in 0..MaxFrames :
           TransferCall(t, "transfer_frames_adc", n, "None", NoneQ)
    \/ \E t \in Threads : XferLock(t)
    \/ \E t \in Threads : XferReset(t)
    \/ \E t \in Threads : XferWrite(t)
    \/ \E t \in Threads : XferLine(t)
    \/ \E t \in Threads : XferData(t)
    \/ \E t \in Threads : XferDecode(t)
    \/ DevReply(XferProfile)

SpecXfer == InitXfer /\ [][NextXfer]_vars

\* the device answered this caller's XFER with OK (the line the caller read
\* is that answer) and `dev.payload` is what it sent after it
AnsweredXfer(t) ==
    /\ th[t].op \in TransferOps
    /\ th[t].cmd.name = "XFER"
    /\ th[t].line.k = "line" /\ th[t].line.st = "OK" /\ th[t].line.of = th[t].cid
    /\ dev.xfer = th[t].cid

\* little-endian signed 16-bit value at payload element e (1-based)
ElementAt(p, e) ==
    LET u == p[2 * e - 1] + 256 * p[2 * e] IN IF u < 32768 THEN u ELSE u - 65536

\* C2: a raw transfer of frames > 0 whose XFER was answered OK and whose
\* payload arrived in full has sent "XFER <frames*8>" and returns exactly 4
\* sequences of `frames` samples: sample i of channel c is the payload
\* element i*4+c (0-based i, c).
C2_RawDecode ==
    \A t \in Threads :
        (/\ th[t].op = "transfer_frames_adc" /\ th[t].pc = "idle"
         /\ AnsweredXfer(t)
         /\ Len(dev.payload) = th[t].frames * 8)
        => /\ th[t].cmd = Cmd("XFER", <<th[t].frames * 8>>)
           /\ sent[th[t].cid].cmd = th[t].cmd
           /\ th[t].out.kind = "return"
           /\ DOMAIN th[t].out.val = 1..4
           /\ \A c \in 1..4 :
                /\ Len(th[t].out.val[c]) = th[t].frames
                /\ \A i \in 1..th[t].frames :
                     th[t].out.val[c][i] = ElementAt(dev.payload, (i - 1) * 4 + c)

\* C2 witness: a 2-frame raw transfer has returned, delivered in two chunks,
\* with a negative and a positive sample in it
C2_Witness ==
    \E t \in Threads :
        /\ th[t].op = "transfer_frames_adc" /\ th[t].pc = "idle"
        /\ AnsweredXfer(t)
        /\ th[t].frames = 2 /\ th[t].out.kind = "return"
        /\ \E c, d \in 1..4 : th[t].out.val[c][2] < 0 /\ th[t].out.val[d][1] > 255

----------------------------------------------------------------------------
(* One caller, snapshot_W with the autogain loop on a Linear session *)

\* a SNAP? payload: 4 codes, then G=g1 g2 g3 g4
SnapPl(c, g) ==
    <<I(c[1]), I(c[2]), I(c[3]), I(c[4]), KV("G", g[1]), I(g[2]), I(g[3]), I(g[4])>>

\* codes reading about 1.5 mV, 1000 mV and 4880 mV
LowCode == 2 * 5
MidCode == 2 * 3277
HighCode == 2 * 16000

AutoReadings ==
    {SnapPl(<<a[1], b[1], MidCode, MidCode>>, <<a[2], b[2], 3, 7>>) :
        a \in {<<LowCode, 6>>, <<LowCode, 7>>, <<-HighCode, 0>>, <<HighCode, 1>>,
               <<MidCode, 3>>},
        b \in {<<MidCode, 3>>}}
    \cup {SnapPl(<<LowCode, LowCode, HighCode, -HighCode>>, <<6, 0, 1, 7>>),
          <<I(LowCode), I(LowCode), I(HighCode), I(HighCode)>>,
          <<I(LowCode), W("x")>>}

AutoProfile ==
    [sts |-> {"OK", "ERR"}, pats |-> {}, shorts |-> {}, cuts |-> {},
     snaps |-> AutoReadings, gainsq |-> {}]

\* min_mv, max_mv of the call: the defaults, the plotter's, and a crossed pair
AutoThresholds == {<<100, 4700>>, <<50, 4500>>, <<4885, 1>>}

InitAuto ==
    /\ th = [t \in {1} |-> [IdleFrame EXCEPT !.budget = 1]]
    /\ sess = SessLinear
    /\ IdleWire

NextAuto ==
    \/ \E t \in Threads, ag \in BOOLEAN, lh \in AutoThresholds, n \in 0..MaxIters :
           SnapshotWCall(t, "None", ag, QInt(lh[1]), QInt(lh[2]), n, NoneQ)
    \/ \E t \in Threads : AskLock(t)
    \/ \E t \in Threads : AskWrite(t)
    \/ \E t \in Threads : AskRead(t)
    \/ \E t \in Threads : SnapArmed(t)
    \/ \E t \in Threads : SnapPoll(t)
    \/ \E t \in Threads : SnapRet(t)
    \/ \E t \in Threads : AgSnapped(t)
    \/ \E t \in Threads : AgScan(t)
    \/ \E t \in Threads : AgGainRet(t)
    \/ DevReply(AutoProfile)
    \/ DevBusy

SpecAuto == InitAuto /\ [][NextAuto]_vars

\* the events of kind k in a call's trace
EventsOf(ev, k) == {i \in 1..Len(ev) : ev[i][1] = k}

\* the commands named nm written so far
SentNamed(nm) == {i \in 1..Len(sent) : sent[i].cmd.name = nm}

\* the exceptions that are the device's doing: a refusal, a malformed or
\* missing reply
DeviceErrors == {"ProtocolError", "DeviceTimeout", "SnapshotTimeout"}

\* C4: snapshot_W(autogain=True) on a Linear session, gains reported in
\* 0..7: every GAIN written carries a head in 1..4 and a value in 0..7; the
\* loop runs at most max_iters iterations and the call takes at most
\* max_iters + 1 snapshots; the call raises only what the device's refusals
\* and timeouts raise, and once the final snapshot is in it returns that
\* snapshot's reading, converged or not.
C4_AutogainBounded ==
    \A t \in Threads :
        th[t].op = "snapshot_W" /\ th[t].autogain =>
            /\ \A i \in SentNamed("GAIN") :
                  sent[i].cmd.args[1] \in 1..4 /\ sent[i].cmd.args[2] \in 0..7
            /\ th[t].iter <= th[t].max_iters
            /\ Cardinality(SentNamed("SNAP")) <= th[t].max_iters + 1
            /\ Cardinality(EventsOf(th[t].ev, "snap")) <= th[t].max_iters + 1
            /\ th[t].out.kind = "raise" => th[t].out.err \in DeviceErrors
            /\ (th[t].pc = "idle" /\ th[t].out.kind = "return") =>
                  /\ th[t].ev[Len(th[t].ev)] = <<"snap">>
                  /\ th[t].out.val.gains = th[t].gains
                  /\ th[t].out.val.mv = SnapshotMv(sess, th[t].codes, "None")

\* C4 witness: the budget of 2 iterations is used up with the last one
\* still changing a gain, and the call has returned after a third snapshot
C4_Witness ==
    \E t \in Threads :
        /\ th[t].op = "snapshot_W" /\ th[t].autogain /\ th[t].pc = "idle"
        /\ th[t].max_iters = 2 /\ th[t].iter = 2 /\ th[t].changed
        /\ Cardinality(EventsOf(th[t].ev, "snap")) = 3
        /\ th[t].out.kind = "return"

\* the GAIN commands written since the last SNAP? poll, as <<head, value>>
RECURSIVE GainsSince(_)
GainsSince(k) ==
    IF k = 0 \/ sent[k].cmd.name # "GAIN" THEN <<>>
    ELSE Append(GainsSince(k - 1), sent[k].cmd.args)

\* what the rule asks of channels 1..c: one GAIN ch g+1 when |mv| < min_mv
\* and g < 7, else one GAIN ch g-1 when |mv| > max_mv and g > 0, else none
RECURSIVE RuleGains(_, _, _, _, _)
RuleGains(mv, g, lo, hi, c) ==
    IF c = 0 THEN <<>>
    ELSE RuleGains(mv, g, lo, hi, c - 1) \o
         (IF QLt(QAbs(mv[c]), lo) /\ g[c] < 7 THEN <<(<<c, g[c] + 1>>)>>
          ELSE IF QLt(hi, QAbs(mv[c])) /\ g[c] > 0 THEN <<(<<c, g[c] - 1>>)>>
          ELSE <<>>)

\* C5: in every autogain iteration the GAIN commands written are exactly
\* those of the rule, one per channel at most, in channel order; a settle
\* sleep follows only an iteration that wrote a GAIN and a snapshot follows
\* every settle sleep; after an iteration that wrote none the very next
\* snapshot is the final one.
C5_AutogainRule ==
    \A t \in Threads :
        (th[t].op = "snapshot_W" /\ th[t].autogain) =>
            LET f == th[t]
                ev == f.ev
            IN  /\ f.pc = "ag_scan" =>
                      GainsSince(Len(sent)) =
                          RuleGains(SnapshotMv(sess, f.codes, "None"), f.gains,
                                    f.min_mv, f.max_mv, f.chi - 1)
                /\ \A i \in 2..Len(ev) :
                      /\ ev[i][1] = "settle" => ev[i - 1][1] = "gain"
                      /\ ev[i][1] = "snap" => ev[i - 1][1] \in {"settle", "snap"}
                      /\ (ev[i][1] = "snap" /\ ev[i - 1][1] = "snap") =>
                            i = Len(ev) /\ f.pc = "idle"
                /\ (f.pc = "idle" /\ f.out.kind = "return" /\ f.max_iters > 0) =>
                      \/ ev[Len(ev) - 1][1] = "snap"
                      \/ Cardinality(EventsOf(ev, "snap")) = f.max_iters + 1

\* C5 witness: an iteration raised one channel's gain and lowered another's,
\* the next one changed nothing and the call returned after the final snapshot
C5_Witness ==
    \E t \in Threads :
        LET ev == th[t].ev
        IN  /\ th[t].op = "snapshot_W" /\ th[t].pc = "idle" /\ th[t].out.kind = "return"
            /\ Len(ev) >= 6
            /\ ev[2] = <<"gain", 1, 7>> /\ ev[4] = <<"gain", 3, 0>>
            /\ ev[Len(ev)] = <<"snap">> /\ ev[Len(ev) - 1] = <<"snap">>

----------------------------------------------------------------------------
(* One caller, one conversion: snapshots and transfers in mV, volts, watts *)

\* the legacy use_zero argument
UseZero == {"None", "True", "False"}

\* the soft zero written to the factory zeros as well
SetSoftZeroBoth(s, z) ==
    IF s.frontend # LINEAR THEN s
    ELSE [s EXCEPT !.linear_zero_adc = z, !.factory_zero_adc = z]

\* set_soft_zero_adc(z1, z2, z3, z4) on a Linear session
SetSoftZero(s, z) == IF s.frontend # LINEAR THEN s ELSE [s EXCEPT !.linear_zero_adc = z]

\* set_log_deadband_mV(db)
SetLogDeadband(s, db) == IF QLt(db, QZero) THEN s ELSE [s EXCEPT !.log_deadband_mV = db]

\* a second LUT: two knots, 0.1 V, 2 V -> 1e-8, 1e-2 W
SessLogB ==
    [SessLog EXCEPT !.loglut_V_mV = <<100, 2000>>,
                    !.loglut_log10P_Q16 = <<-524288, -131072>>]

\* a Linear session whose device reported a slope of 0.0 for two cells
SessLinearZ == [SessLinear EXCEPT !.cal_slope[3][7] = QZero, !.cal_slope[1][2] = QZero]

\* stored deadbands: the default 300 mV, off, 100 mV
ConvSessions ==
    {SessLinear, SetSoftZero(SessLinear, <<-3, 5, 0, 100>>), SessLinearZ}
    \cup {SetLogDeadband(s, QInt(d)) : s \in {SessLog, SessLogB}, d \in {300, 0, 100}}

\* per-call log_deadband_mV
ConvDeadbands == {NoneQ, QInt(0), QInt(100), QInt(400)}

\* payloads whose first sample is 1311 (200.04 mV), 328 (50.05 mV),
\* 3277 (500.03 mV), 0; snapshots around the same readings
ConvProfile ==
    [sts |-> {"OK", "ERR"},
     pats |-> {<<230, 57>>, <<185, 143>>, <<63, 142>>, <<0, 0>>},
     shorts |-> {0, 10}, cuts |-> {0},
     snaps |-> {SnapPl(<<1311, 328, 3277, -1311>>, <<0, 3, 7, 1>>),
                SnapPl(<<3, 0, -328, 1966>>, <<2, 2, 0, 5>>)},
     gainsq |-> {GainsPl(<<0, 3, 7, 1>>), <<I(1), I(2)>>}]

InitConv ==
    /\ th = [t \in {1} |-> [IdleFrame EXCEPT !.budget = 1]]
    /\ sess \in ConvSessions
    /\ IdleWire

NextConv ==
    \/ \E t \in Threads, op \in {"snapshot_volts", "snapshot_mV"}, uz \in UseZero :
           SnapshotCall(t, op, uz)
    \/ \E t \in Threads, uz \in UseZero, db \in ConvDeadbands :
           SnapshotWCall(t, uz, FALSE, QInt(100), QInt(4700), 10, db)
    \/ \E t \in Threads, op \in TransferOps, n \in 1..MaxFrames, uz \in UseZero,
          db \in ConvDeadbands :
           /\ (op \in {"transfer_frames_adc", "transfer_frames_volts"} => IsNone(db))
           /\ (op = "transfer_frames_adc" => uz = "None")
           /\ TransferCall(t, op, n, uz, db)
    \/ \E t \in Threads : AskLock(t)
    \/ \E t \in Threads : AskWrite(t)
    \/ \E t \in Threads : AskRead(t)
    \/ \E t \in Threads : SnapArmed(t)
    \/ \E t \in Threads : SnapPoll(t)
    \/ \E t \in Threads : SnapRet(t)
    \/ \E t \in Threads : XferLock(t)
    \/ \E t \in Threads : XferReset(t)
    \/ \E t \in Threads : XferWrite(t)
    \/ \E t \in Threads : XferLine(t)
    \/ \E t \in Threads : XferData(t)
    \/ \E t \in Threads : XferDecode(t)
    \/ \E t \in Threads : XferGains(t)
    \/ DevReply(ConvProfile)
    \/ DevBusy

SpecConv == InitConv /\ [][NextConv]_vars

\* C3: when the device answers XFER with OK and then delivers fewer bytes
\* than requested, every bulk transfer (raw, mV, volts, watts) ends by
\* raising ShortRead and returns nothing.
C3_ShortRead ==
    \A t \in Threads :
        (/\ th[t].pc # "xfer_data"
         /\ AnsweredXfer(t)
         /\ Len(dev.payload) < th[t].need)
        => th[t].pc = "idle" /\ th[t].out = Raised("ShortRead")

\* C3 witness: a watts transfer of 2 frames got 6 of its 16 bytes and raised
C3_Witness ==
    \E t \in Threads :
        /\ th[t].op = "transfer_frames_W" /\ th[t].pc = "idle"
        /\ AnsweredXfer(t)
        /\ th[t].need = 16 /\ Len(dev.payload) = 6 /\ Len(th[t].buf) = 6
        /\ th[t].out = Raised("ShortRead")

\* the raw code of sample i (1-based) of channel h in the payload the device sent
RawAt(h, i) == ElementAt(dev.payload, (i - 1) * NUM_HEADS + h)

\* the call of thread t has returned a value
HasReturned(t, op) == th[t].op = op /\ th[t].pc = "idle" /\ th[t].out.kind = "return"

\* the deadband in force for the call of thread t
EffectiveDeadband(t) == IF IsNone(th[t].db) THEN sess.log_deadband_mV ELSE th[t].db

\* C6: on a Log session with an effective deadband d > 0 (stored, or passed
\* with the call), whatever the LUT holds: snapshot_W reports exactly 0 W
\* for every channel whose millivolt reading is below d in magnitude, and
\* transfer_frames_W reports exactly 0 W for every sample whose millivolts
\* are below d in magnitude; the value is the literal zero, not a value
\* voltage_to_power_W produced.
C6_LogDeadband ==
    \A t \in Threads :
        (sess.frontend = LOG /\ QLt(QZero, EffectiveDeadband(t))) =>
            /\ HasReturned(t, "snapshot_W") =>
                  \A c \in 1..NUM_HEADS :
                      QLt(QAbs(QRound(CodeToMv(th[t].codes[c]), 3)), EffectiveDeadband(t))
                          => th[t].out.val.w[c] = WZero
            /\ HasReturned(t, "transfer_frames_W") =>
                  \A h \in 1..NUM_HEADS : \A i \in 1..th[t].frames :
                      QLt(QAbs(CodeToMv(RawAt(h, i))), EffectiveDeadband(t))
                          => th[t].out.val[h][i] = WZero

\* C6 witness: snapshot_W under the stored 300 mV deadband returned 0 W for
\* the channels reading 200 mV and 50 mV and a LUT value for the one at 500 mV
C6_Witness ==
    \E t \in Threads :
        /\ sess.frontend = LOG /\ HasReturned(t, "snapshot_W")
        /\ IsNone(th[t].db) /\ sess.log_deadband_mV = QInt(300)
        /\ th[t].codes = <<1311, 328, 3277, -1311>>
        /\ th[t].out.val.w[1] = WZero /\ th[t].out.val.w[4] = WZero
        /\ th[t].out.val.w[3].k = "pow10"

\* C7: transfer_frames_W on a Log session called with log_deadband_mV = d
\* takes d, not the stored deadband, as the threshold: every sample with
\* |mV| >= d comes back as the LUT interpolation at its own voltage.
C7_PerCallDeadband ==
    \A t \in Threads :
        (sess.frontend = LOG /\ HasReturned(t, "transfer_frames_W") /\ ~IsNone(th[t].db)) =>
            \A h \in 1..NUM_HEADS : \A i \in 1..th[t].frames :
                ~QLt(QAbs(CodeToMv(RawAt(h, i))), th[t].db)
                    => th[t].out.val[h][i] =
                           VoltageToPower(sess, MvToVolts(CodeToMv(RawAt(h, i))))

\* the code a conversion starts from on channel c: raw minus the active
\* zero on a Linear session, the raw code itself on a Log session
Corrected(c, code) ==
    IF sess.frontend = LINEAR THEN code - sess.linear_zero_adc[c] ELSE code

\* the millivolts transfer_frames_mV keeps of a Log sample under deadband db
LogKept(x, db) == IF sess.frontend = LOG /\ InDeadband(db, x) THEN QZero ELSE x

\* the commands a snapshot writes: SNAP 1, then SNAP? polls
SnapshotCommands ==
    /\ Len(sent) >= 2
    /\ sent[1].cmd = Cmd("SNAP", <<1>>)
    /\ \A k \in 2..Len(sent) : sent[k].cmd = Cmd("SNAP?", <<>>)

\* the commands a transfer of n frames writes: XFER 8n, and GAINS? if asked
TransferCommands(n, gains) ==
    /\ sent[1].cmd = Cmd("XFER", <<n * 8>>)
    /\ IF gains THEN Len(sent) = 2 /\ sent[2].cmd = Cmd("GAINS?", <<>>)
       ELSE Len(sent) = 1

\* C8: whatever use_zero is (None, True, False), on a Linear session every
\* snapshot / transfer conversion starts from raw - active zero of its
\* channel and on a Log session from the raw code; the commands written
\* are those of the operation alone.
C8_ZeroAlways ==
    \A t \in Threads :
        LET f == th[t]
            g(c) == f.gains[c]
        IN  /\ HasReturned(t, "snapshot_mV") =>
                  /\ SnapshotCommands
                  /\ \A c \in 1..NUM_HEADS :
                        f.out.val.mv[c] = QRound(CodeToMv(Corrected(c, f.codes[c])), 3)
            /\ HasReturned(t, "snapshot_volts") =>
                  /\ SnapshotCommands
                  /\ \A c \in 1..NUM_HEADS :
                        f.out.val.v[c] = MvToVolts(CodeToMv(Corrected(c, f.codes[c])))
            /\ (HasReturned(t, "snapshot_W") /\ sess.frontend = LINEAR) =>
                  /\ SnapshotCommands
                  /\ \A c \in 1..NUM_HEADS :
                        f.out.val.w[c] =
                            LinearPowerOne(sess, sess.cal_slope[c][g(c)],
                                           sess.cal_intercept[c][g(c)],
                                           QRound(CodeToMv(Corrected(c, f.codes[c])), 3))
            /\ HasReturned(t, "transfer_frames_mV") =>
                  /\ TransferCommands(f.frames, FALSE)
                  /\ \A h \in 1..NUM_HEADS : \A i \in 1..f.frames :
                        f.out.val[h][i] =
                            LogKept(CodeToMv(Corrected(h, RawAt(h, i))), EffectiveDeadband(t))
            /\ HasReturned(t, "transfer_frames_volts") =>
                  /\ TransferCommands(f.frames, FALSE)
                  /\ \A h \in 1..NUM_HEADS : \A i \in 1..f.frames :
                        f.out.val[h][i] =
                            MvToVolts(LogKept(CodeToMv(Corrected(h, RawAt(h, i))),
                                              sess.log_deadband_mV))
            /\ (HasReturned(t, "transfer_frames_W") /\ sess.frontend = LINEAR) =>
                  /\ TransferCommands(f.frames, TRUE)
                  /\ \A h \in 1..NUM_HEADS : \A i \in 1..f.frames :
                        f.out.val[h][i] =
                            LinearPowerOne(sess, sess.cal_slope[h][g(h)],
                                           sess.cal_intercept[h][g(h)],
                                           CodeToMv(Corrected(h, RawAt(h, i))))

\* C8 witness: snapshot_mV(use_zero=False) on a Linear session whose active
\* zero is a soft zero has returned the reading less that zero
C8_Witness ==
    \E t \in Threads :
        /\ sess.frontend = LINEAR /\ sess.linear_zero_adc = <<-3, 5, 0, 100>>
        /\ HasReturned(t, "snapshot_mV") /\ th[t].uz = "False"
        /\ th[t].codes = <<3, 0, -328, 1966>>
        /\ th[t].out.val.mv[1] = QRound(CodeToMv(6), 3)
        /\ th[t].out.val.mv[4] = QRound(CodeToMv(1866), 3)

----------------------------------------------------------------------------
(* CoreDAQ.__init__ : frontend detection, I2C refresh, calibration load,   *)
(* factory zeros                                                           *)

\* str.upper() on the letters
LowerCase ==
    <<"a", "b", "c", "d", "e", "f", "g", "h", "i", "j", "k", "l", "m",
      "n", "o", "p", "q", "r", "s", "t", "u", "v", "w", "x", "y", "z">>
UpperCase ==
    <<"A", "B", "C", "D", "E", "F", "G", "H", "I", "J", "K", "L", "M",
      "N", "O", "P", "Q", "R", "S", "T", "U", "V", "W", "X", "Y", "Z">>

Upper(c) ==
    IF \E i \in 1..Len(LowerCase) : LowerCase[i] = c
    THEN UpperCase[CHOOSE i \in 1..Len(LowerCase) : LowerCase[i] = c]
    ELSE c

\* p.strip().upper().replace(" ", "") on a text given as its characters
Normalised(p) ==
    LET u == [i \in 1..Len(p) |-> Upper(p[i])]
    IN  SelectSeq(u, LAMBDA c : c # " ")

\* sub in txt
Contains(txt, sub) ==
    \E i \in 1..(Len(txt) - Len(sub) + 1) : SubSeq(txt, i, i + Len(sub) - 1) = sub

TypeLog == <<"T", "Y", "P", "E", "=", "L", "O", "G">>
TypeLinear == <<"T", "Y", "P", "E", "=", "L", "I", "N", "E", "A", "R">>

\* the parse with an unrecognised reply taken for a Linear head
FrontendOfDefault(p) ==
    IF Contains(Normalised(p), TypeLog) THEN LOG ELSE LINEAR

\* _detect_frontend_type_once on the payload of an OK reply ("" : raises)
FrontendOf(p) ==
    IF Contains(Normalised(p), TypeLog) THEN LOG
    ELSE IF Contains(Normalised(p), TypeLinear) THEN LINEAR
    ELSE ""

\* the detection written as an identification query
DetectCmdIdn == Cmd("IDN?", <<>>)

DetectCmd == Cmd("HEAD_TYPE?", <<>>)

RECURSIVE Pow2(_)
Pow2(k) == IF k <= 0 THEN 1 ELSE 2 * Pow2(k - 1)

\* struct.unpack("<f", bits.to_bytes(4, "little")) for bits given as two
\* 16-bit halves <<hi, lo>>: zero and the normal numbers of magnitude
\* 2^-30 .. 2^30 (the values the model's calibration tables hold)
F32Value(b) ==
    LET sign == IF b[1] >= 32768 THEN -1 ELSE 1
        e == (b[1] \div 128) % 256
        m == (b[1] % 128) * 65536 + b[2]
    IN  IF e = 0 /\ m = 0 THEN QZero
        ELSE IF e \in 120..150 THEN Q(sign * (8388608 + m), Pow2(150 - e))
        ELSE IF e \in 151..156 THEN QMul(QInt(sign * (8388608 + m)), QInt(Pow2(e - 150)))
        ELSE NoneQ

\* int(hex, 16) followed by to_bytes(4, "little") succeeds
IsHex32(tok) == tok.t = "hex" /\ tok.x[1] \in 0..65535 /\ tok.x[2] \in 0..65535

\* the parse with a missing I= field taken for an intercept of 0.0
CalParseLenient(pl) ==
    LET S == Keyed(pl, "S")
        N == Keyed(pl, "I")
    IN  IF Len(pl) < 3 \/ S = {} THEN [ok |-> FALSE]
        ELSE IF ~IsHex32(pl[Last(S)]) THEN [ok |-> FALSE]
        ELSE [ok |-> TRUE, slope |-> F32Value(pl[Last(S)].x),
              intercept |-> IF N = {} \/ ~IsHex32(pl[Last(N)]) THEN QZero
                            ELSE F32Value(pl[Last(N)].x)]

\* the parse of one CAL reply: at least 4 tokens, the last S= and the last I=
CalParse(pl) ==
    LET S == Keyed(pl, "S")
        N == Keyed(pl, "I")
    IN  IF Len(pl) < 4 \/ S = {} \/ N = {} THEN [ok |-> FALSE]
        ELSE IF ~IsHex32(pl[Last(S)]) \/ ~IsHex32(pl[Last(N)]) THEN [ok |-> FALSE]
        ELSE [ok |-> TRUE, slope |-> F32Value(pl[Last(S)].x),
              intercept |-> F32Value(pl[Last(N)].x)]

\* k.strip().lower() on the keys of a FACTORY_ZEROS? reply
LowerKey(k) ==
    CASE k = "H1" -> "h1" [] k = "H2" -> "h2" [] k = "H3" -> "h3" [] k = "H4" -> "h4"
      [] OTHER -> k

\* a parse that takes 0 for whatever the payload does not give
ZerosParseLenient(pl) ==
    [ok |-> TRUE,
     z |-> [c \in 1..4 |-> IF c <= Len(pl) /\ pl[c].t \in {"int", "kv"} THEN pl[c].v ELSE 0]]

\* the parse of the FACTORY_ZEROS? payload: h1= .. h4= if any token has an
\* "=", else the first 4 tokens as integers
ZerosParse(pl) ==
    LET kvs == {i \in 1..Len(pl) : pl[i].t \in {"kv", "kvw", "hex"}}
        at(k) == {i \in kvs : LowerKey(pl[i].k) = k}
        keys == <<"h1", "h2", "h3", "h4">>
    IN  IF Len(pl) < 4 THEN [ok |-> FALSE]
        ELSE IF kvs # {}
        THEN IF \E c \in 1..4 : at(keys[c]) = {} \/ pl[Last(at(keys[c]))].t # "kv"
             THEN [ok |-> FALSE]
             ELSE [ok |-> TRUE, z |-> [c \in 1..4 |-> pl[Last(at(keys[c]))].v]]
        ELSE IF ~AllInt(pl, 1, 4) THEN [ok |-> FALSE]
        ELSE [ok |-> TRUE, z |-> [c \in 1..4 |-> pl[c].v]]

\* CoreDAQ(port): the port is opened, the lock created, the input drained
Construct(t) ==
    /\ CanCall(t)
    /\ th[t].calls = 0 /\ sess = Sess0
    /\ th' = [th EXCEPT ![t] = [Begin(t, "__init__") EXCEPT !.pc = "init_detect"]]
    /\ rx' = <<>>
    /\ lastIO' = IO(t, "reset")
    /\ UNCHANGED <<lock, ser_open, devq, sent, sess, dev>>

\* _detect_frontend_type_once: drain again, ask HEAD_TYPE?
InitDetect(t) ==
    /\ th[t].pc = "init_detect"
    /\ th' = [th EXCEPT ![t] = Ask(@, DetectCmd, "init_head")]
    /\ rx' = <<>>
    /\ lastIO' = IO(t, "reset")
    /\ UNCHANGED <<lock, ser_open, devq, sent, sess, dev>>

\* the reply to HEAD_TYPE?; then the fields' defaults and i2c_refresh
InitHead(t) ==
    /\ th[t].pc = "init_head"
    /\ LET f == th[t]
           ft == FrontendOf(f.line.pl)
       IN  IF f.st # "OK" \/ ft = ""
           THEN /\ th' = [th EXCEPT ![t] = Unwind(@, "ProtocolError")]
                /\ UNCHANGED sess
           ELSE /\ th' = [th EXCEPT ![t] = Ask(@, SimpleCmds.i2c_refresh, "init_i2c")]
                /\ sess' = [Sess0 EXCEPT !.frontend = ft]
    /\ UNCHANGED <<lock, ser_open, rx, devq, sent, lastIO, dev>>

\* the reply to I2C REFRESH; then _load_calibration_for_frontend
InitI2C(t) ==
    /\ th[t].pc = "init_i2c"
    /\ th' = [th EXCEPT ![t] =
                IF th[t].st # "OK" THEN Unwind(@, "ProtocolError")
                ELSE IF sess.frontend = LINEAR
                THEN Ask([@ EXCEPT !.head = 1, !.gain = 0], Cmd("CAL", <<1, 0>>), "init_cal")
                ELSE [@ EXCEPT !.pc = "logcal_lock"]]
    /\ UNCHANGED <<lock, ser_open, rx, devq, sent, lastIO, sess, dev>>

\* _load_linear_calibration: the reply to CAL head gain; the next cell, or
\* after the last one _load_factory_zeros
InitCal(t) ==
    /\ th[t].pc = "init_cal"
    /\ LET f == th[t]
           r == CalParse(f.line.pl)
       IN  IF f.st # "OK" \/ ~r.ok
           THEN /\ th' = [th EXCEPT ![t] = Unwind(@, "ProtocolError")]
                /\ UNCHANGED sess
           ELSE /\ sess' = [sess EXCEPT !.cal_slope[f.head][f.gain] = r.slope,
                                        !.cal_intercept[f.head][f.gain] = r.intercept]
                /\ th' = [th EXCEPT ![t] =
                      IF f.gain < NUM_GAINS - 1
                      THEN Ask([@ EXCEPT !.gain = f.gain + 1],
                               Cmd("CAL", <<f.head, f.gain + 1>>), "init_cal")
                      ELSE IF f.head < NUM_HEADS
                      THEN Ask([@ EXCEPT !.head = f.head + 1, !.gain = 0],
                               Cmd("CAL", <<f.head + 1, 0>>), "init_cal")
                      ELSE Ask(@, Cmd("FACTORY_ZEROS?", <<>>), "init_zeros")]
    /\ UNCHANGED <<lock, ser_open, rx, devq, sent, lastIO, dev>>

\* _load_factory_zeros: the reply to FACTORY_ZEROS?; __init__ returns
InitZeros(t) ==
    /\ th[t].pc = "init_zeros"
    /\ LET f == th[t]
           r == ZerosParse(f.line.pl)
       IN  IF f.st # "OK" \/ ~r.ok
           THEN /\ th' = [th EXCEPT ![t] = Unwind(@, "ProtocolError")]
                /\ UNCHANGED sess
           ELSE /\ sess' = [sess EXCEPT !.factory_zero_adc = r.z, !.linear_zero_adc = r.z,
                                        !.ready = TRUE]
                /\ th' = [th EXCEPT ![t] = Return(@, "session")]
    /\ UNCHANGED <<lock, ser_open, rx, devq, sent, lastIO, dev>>

\* _load_log_calibration: with self._lock
LogcalLock(t) ==
    /\ th[t].pc = "logcal_lock"
    /\ Acquire(t)
    /\ th' = [th EXCEPT ![t].pc = "logcal_reset"]
    /\ UNCHANGED <<ser_open, rx, devq, sent, lastIO, sess, dev>>

\* self._ser.reset_input_buffer()
LogcalReset(t) ==
    /\ th[t].pc = "logcal_reset"
    /\ rx' = <<>>
    /\ lastIO' = IO(t, "reset")
    /\ th' = [th EXCEPT ![t].pc = "logcal_write"]
    /\ UNCHANGED <<lock, ser_open, devq, sent, sess, dev>>

\* self._writeln("LOGCAL 1")
LogcalWrite(t) ==
    /\ th[t].pc = "logcal_write"
    /\ Written(t, Cmd("LOGCAL", <<1>>))
    /\ th' = [th EXCEPT ![t].pc = "logcal_header", ![t].cid = Len(sent) + 1,
                        ![t].cmd = Cmd("LOGCAL", <<1>>), ![t].tries = 0]
    /\ UNCHANGED <<lock, ser_open, rx, sess, dev>>

\* line.startswith("OK") and " N=" in line and " RB=" in line and " H" in line
IsLogcalHeader(l) ==
    /\ l.st = "OK"
    /\ Keyed(l.pl, "N") # {} /\ Keyed(l.pl, "RB") # {}
    /\ \E i \in 1..Len(l.pl) : l.pl[i].t = "word" /\ l.pl[i].k = "H"

\* the header parse with the record size taken for granted
HeaderParseAnyRb(l) ==
    LET n == l.pl[First(Keyed(l.pl, "N"))]
    IN  IF n.t # "kv" THEN [ok |-> FALSE]
        ELSE [ok |-> TRUE, n_pts |-> n.v, rb |-> 6]

\* n_pts and rb of a header line: the first N= and the first RB= token
HeaderParse(l) ==
    LET n == l.pl[First(Keyed(l.pl, "N"))]
        rb == l.pl[First(Keyed(l.pl, "RB"))]
    IN  IF n.t # "kv" \/ rb.t # "kv" THEN [ok |-> FALSE]
        ELSE [ok |-> TRUE, n_pts |-> n.v, rb |-> rb.v]

\* one turn of the header loop (for _ in range(120)): a read that times out
\* or brings a line that is not the header uses up an attempt; after the
\* last attempt the header was not received
LogcalReadHeader(t) ==
    /\ th[t].pc = "logcal_header"
    /\ IF th[t].tries >= LOGCAL_ATTEMPTS
       THEN /\ th' = [th EXCEPT ![t] = Unwind(@, "ProtocolError")]
            /\ Release
            /\ UNCHANGED <<rx, lastIO>>
       ELSE IF rx = <<>>
       THEN /\ th' = [th EXCEPT ![t].tries = th[t].tries + 1]
            /\ lastIO' = IO(t, "read")
            /\ UNCHANGED <<rx, lock>>
       ELSE LET l == ReadLineOf(Head(rx))
                h == HeaderParse(l)
            IN  /\ rx' = Tail(rx)
                /\ lastIO' = IO(t, "read")
                /\ IF ~IsLogcalHeader(l)
                   THEN /\ th' = [th EXCEPT ![t].tries = th[t].tries + 1]
                        /\ UNCHANGED lock
                   ELSE IF ~h.ok \/ h.rb # 6 \/ h.n_pts < 0
                   THEN /\ th' = [th EXCEPT ![t] = Unwind(@, "ProtocolError")]
                        /\ Release
                   ELSE /\ th' = [th EXCEPT ![t].pc = "logcal_payload", ![t].line = l,
                                            ![t].n_pts = h.n_pts, ![t].need = h.n_pts * 6,
                                            ![t].buf = <<>>]
                        /\ UNCHANGED lock
    /\ UNCHANGED <<ser_open, devq, sent, sess, dev>>

\* payload = self._ser.read(payload_len): the bytes that arrive before the
\* read times out; fewer than payload_len is an error
LogcalPayload(t) ==
    /\ th[t].pc = "logcal_payload"
    /\ LET f == th[t]
           want == f.need - Len(f.buf)
       IN  IF want = 0
           THEN /\ th' = [th EXCEPT ![t].pc = "logcal_done", ![t].tries = 0]
                /\ UNCHANGED <<rx, lock, lastIO>>
           ELSE IF rx = <<>>
           THEN /\ th' = [th EXCEPT ![t] = Unwind(@, "ProtocolError")]
                /\ Release
                /\ lastIO' = IO(t, "read")
                /\ UNCHANGED rx
           ELSE /\ th' = [th EXCEPT ![t].buf = f.buf \o ReadDataOf(Head(rx), want)]
                /\ rx' = ReadRestOf(Head(rx), want)
                /\ lastIO' = IO(t, "read")
                /\ UNCHANGED lock
    /\ UNCHANGED <<ser_open, devq, sent, sess, dev>>

\* the decode with the two bytes of the voltage taken in the wrong order
LutDecodeSwapped(buf, n) ==
    [i \in 1..n |->
        LET k == 6 * (i - 1)
        IN  <<buf[k + 2] + 256 * buf[k + 1],
              buf[k + 3] + 256 * buf[k + 4] + 65536 * buf[k + 5]
                + 16777216 * (IF buf[k + 6] >= 128 THEN buf[k + 6] - 256 ELSE buf[k + 6])>>]

\* struct.unpack_from("<Hi", payload, i * rb), i = 0 .. n_pts - 1
LutDecode(buf, n) ==
    [i \in 1..n |->
        LET k == 6 * (i - 1)
        IN  <<buf[k + 1] + 256 * buf[k + 2],
              buf[k + 3] + 256 * buf[k + 4] + 65536 * buf[k + 5]
                + 16777216 * (IF buf[k + 6] >= 128 THEN buf[k + 6] - 256 ELSE buf[k + 6])>>]

\* one turn of the terminator loop (for _ in range(120)), then the decode;
\* an empty table is an error, otherwise the LUT is stored and __init__
\* returns
LogcalDone(t) ==
    /\ th[t].pc = "logcal_done"
    /\ IF th[t].tries >= LOGCAL_ATTEMPTS
       THEN /\ th' = [th EXCEPT ![t] = Unwind(@, "ProtocolError")]
            /\ Release
            /\ UNCHANGED <<rx, sess, lastIO>>
       ELSE IF rx = <<>>
       THEN /\ th' = [th EXCEPT ![t].tries = th[t].tries + 1]
            /\ lastIO' = IO(t, "read")
            /\ UNCHANGED <<rx, sess, lock>>
       ELSE LET l == ReadLineOf(Head(rx))
                lut == LutDecode(th[t].buf, th[t].n_pts)
            IN  /\ rx' = Tail(rx)
                /\ lastIO' = IO(t, "read")
                /\ IF ~(l.st = "OK" /\ l.pl = <<W("DONE")>>)
                   THEN /\ th' = [th EXCEPT ![t].tries = th[t].tries + 1]
                        /\ UNCHANGED <<lock, sess>>
                   ELSE /\ Release
                        /\ IF lut = <<>>
                           THEN /\ th' = [th EXCEPT ![t] = Unwind(@, "ProtocolError")]
                                /\ UNCHANGED sess
                           ELSE /\ th' = [th EXCEPT ![t] = Return(@, "session")]
                                /\ sess' = [sess EXCEPT
                                      !.loglut_V_mV = [i \in 1..Len(lut) |-> lut[i][1]],
                                      !.loglut_log10P_Q16 = [i \in 1..Len(lut) |-> lut[i][2]],
                                      !.lut_loaded = TRUE, !.ready = TRUE]
    /\ UNCHANGED <<ser_open, devq, sent, dev>>

----------------------------------------------------------------------------
(* One caller: construction of a session, then driver calls on it *)

\* what the device holds: float32 bit patterns of slope (10..13 times 2^g
\* mV/W) and intercept (1.0, -2.0, one cell 0.0) per head and gain
CalBits ==
    [h \in 1..NUM_HEADS |-> [g \in 0..(NUM_GAINS - 1) |->
        [s |-> <<16672 + 128 * g + 16 * (h - 1), 0>>,
         i |-> IF h = NUM_HEADS /\ g = NUM_GAINS - 1 THEN <<0, 0>>
               ELSE IF g % 2 = 0 THEN <<16256, 0>> ELSE <<49152, 0>>]]]

\* the text of HEAD_TYPE? replies
HeadTexts ==
    {TypeLinear, TypeLog,
     <<"t", "y", "p", "e", " ", "=", " ", "l", "o", "g">>,
     <<"H", "1", " ", "T", "y", "p", "e", "=", "L", "i", "n", "e", "a", "r">>,
     <<"T", "Y", "P", "E", "=", "N", "O", "N", "E">>,
     <<>>}

InitProfile ==
    [sts |-> {"OK", "ERR"},
     heads |-> HeadTexts,
     cal |-> CalBits,
     calfaults |-> {<<WN("H", 1), WN("G", 0), KX("S", <<16672, 0>>)>>,
                    <<WN("H", 1), WN("G", 0), KX("S", <<16672, 0>>), W("I")>>,
                    <<WN("H", 1), WN("G", 0), KVW("S"), KX("I", <<0, 0>>)>>,
                    <<WN("H", 1), WN("G", 0), KX("S", <<65536, 0>>), KX("I", <<0, 0>>)>>},
     zerosq |-> {<<I(836), I(835), I(-2), I(0)>>,
                 <<KV("H1", 836), KV("h2", 835), KV("h3", -2), KV("h4", 0), KV("h1", 7)>>,
                 <<I(836), I(835), I(834)>>,
                 <<I(836), W("x"), I(834), I(839)>>,
                 <<KV("h1", 836), KV("h2", 835), KV("h3", 834), I(839)>>,
                 <<KV("h1", 836), KV("h2", 835), KV("h3", 834), KVW("h4")>>},
     luts |-> {<<>>, <<<<0, -589824>>, <<200, -393216>>, <<1000, -196608>>>>,
               <<<<65535, 70000>>>>, <<<<1000, -196608>>, <<200, -393216>>>>},
     pats |-> {<<37, 200>>}, shorts |-> {0, 1}, cuts |-> {0},
     snaps |-> {SnapPl(<<3, 0, -328, 1966>>, <<2, 2, 0, 5>>)}, gainsq |-> {}]

\* a line the device sends unasked while it starts up
Banner ==
    /\ dev.boot
    /\ rx' = Append(rx, JunkLine(0))
    /\ dev' = [dev EXCEPT !.boot = FALSE]
    /\ UNCHANGED <<th, lock, ser_open, devq, sent, lastIO, sess>>

InitInit ==
    /\ th = [t \in {1} |-> [IdleFrame EXCEPT !.budget = MaxSeqCalls]]
    /\ sess = Sess0
    /\ lock = NoThread
    /\ ser_open = TRUE
    /\ rx = <<>>
    /\ devq = <<>>
    /\ sent = <<>>
    /\ lastIO = [by |-> NoThread, kind |-> "none", tick |-> 0]
    /\ dev = [payload |-> <<>>, xfer |-> 0, busy |-> 0, head |-> <<>>, boot |-> TRUE]

NextInit ==
    \/ \E t \in Threads : Construct(t)
    \/ \E t \in Threads : InitDetect(t)
    \/ \E t \in Threads : InitHead(t)
    \/ \E t \in Threads : InitI2C(t)
    \/ \E t \in Threads : InitCal(t)
    \/ \E t \in Threads : InitZeros(t)
    \/ \E t \in Threads : LogcalLock(t)
    \/ \E t \in Threads : LogcalReset(t)
    \/ \E t \in Threads : LogcalWrite(t)
    \/ \E t \in Threads : LogcalReadHeader(t)
    \/ \E t \in Threads : LogcalPayload(t)
    \/ \E t \in Threads : LogcalDone(t)
    \/ \E t \in Threads : AskLock(t)
    \/ \E t \in Threads : AskWrite(t)
    \/ \E t \in Threads : AskRead(t)
    \/ \E t \in Threads, op \in DOMAIN SimpleCmds : sess.ready /\ SimpleCall(t, op)
    \/ \E t \in Threads : SimpleRet(t)
    \/ \E t \in Threads, uz \in UseZero : sess.ready /\ SnapshotCall(t, "snapshot_mV", uz)
    \/ \E t \in Threads : SnapArmed(t)
    \/ \E t \in Threads : SnapPoll(t)
    \/ \E t \in Threads : SnapRet(t)
    \/ \E t \in Threads, n \in 1..MaxFrames :
           sess.ready /\ TransferCall(t, "transfer_frames_mV", n, "None", NoneQ)
    \/ \E t \in Threads : XferLock(t)
    \/ \E t \in Threads : XferReset(t)
    \/ \E t \in Threads : XferWrite(t)
    \/ \E t \in Threads : XferLine(t)
    \/ \E t \in Threads : XferData(t)
    \/ \E t \in Threads : XferDecode(t)
    \/ \E t \in Threads : sess.ready /\ Close(t)
    \/ DevReply(InitProfile)
    \/ Banner

SpecInit == InitInit /\ [][NextInit]_vars

\* thread t is running, or has run last, the constructor
ConstructorOf(t) == th[t].op = "__init__"

\* C9: HEAD_TYPE? is the first command every session writes and it is
\* written once only; a session handed to its caller is Linear or Log, and
\* the variant, once determined, stays what it is through every later step
\* of every driver operation.
C9_DetectOnce ==
    /\ [](/\ sent # <<>> => sent[1].cmd = Cmd("HEAD_TYPE?", <<>>)
          /\ Cardinality(SentNamed("HEAD_TYPE?")) <= 1
          /\ sess.ready => sess.frontend \in {LINEAR, LOG})
    /\ [][sess.frontend # "" => sess'.frontend = sess.frontend]_vars

\* C9 witness: a Log session, detected from the reply "type = log", has
\* served a bulk transfer after its construction
C9_Witness ==
    \E t \in Threads :
        /\ sess.ready /\ sess.frontend = LOG
        /\ HasReturned(t, "transfer_frames_mV") /\ th[t].calls = 2
        /\ SentNamed("HEAD_TYPE?") = {1}
        /\ Len(sent) = 4

\* the step of the constructor that thread t is at has failed: the reply it
\* holds is refused or unusable, or nothing more arrives
InitFailed(t) ==
    LET f == th[t]
        txt == Normalised(f.line.pl)
        hdr == ReadLineOf(Head(rx))
    IN  /\ ConstructorOf(t)
        /\ \/ f.pc = "ask_read" /\ rx = <<>>
           \/ f.pc = "init_head" /\
                 (f.st # "OK" \/ (~Contains(txt, TypeLog) /\ ~Contains(txt, TypeLinear)))
           \/ f.pc = "init_i2c" /\ f.st # "OK"
           \/ f.pc = "init_cal" /\ (f.st # "OK" \/ ~CalParse(f.line.pl).ok)
           \/ f.pc = "init_zeros" /\ (f.st # "OK" \/ ~ZerosParse(f.line.pl).ok)
           \/ f.pc = "logcal_header" /\ f.tries >= LOGCAL_ATTEMPTS
           \/ f.pc = "logcal_header" /\ f.tries < LOGCAL_ATTEMPTS /\ rx # <<>> /\
                 IsLogcalHeader(hdr) /\
                 (~HeaderParse(hdr).ok \/ HeaderParse(hdr).rb # 6)
           \/ f.pc = "logcal_payload" /\ Len(f.buf) < f.need /\ rx = <<>>
           \/ f.pc = "logcal_done" /\ f.tries >= LOGCAL_ATTEMPTS
           \/ f.pc = "logcal_done" /\ f.tries < LOGCAL_ATTEMPTS /\ rx # <<>> /\ f.n_pts = 0 /\
                 hdr.st = "OK" /\ hdr.pl = <<W("DONE")>>

\* a session handed to its caller is complete: the 32 cells asked for in
\* head-then-gain order and stored as the device holds them, the zeros one of
\* the two well-formed FACTORY_ZEROS? replies (plain, or keyed with h1 given
\* twice), or a non-empty LUT with as many voltages as powers
SessionComplete ==
    /\ sess.frontend \in {LINEAR, LOG}
    /\ sess.frontend = LINEAR =>
          /\ \A h \in 1..NUM_HEADS : \A g \in 0..(NUM_GAINS - 1) :
                /\ sent[2 + (h - 1) * NUM_GAINS + g + 1].cmd = Cmd("CAL", <<h, g>>)
                /\ sess.cal_slope[h][g] = F32Value(CalBits[h][g].s)
                /\ sess.cal_intercept[h][g] = F32Value(CalBits[h][g].i)
          /\ sent[2 + NUM_HEADS * NUM_GAINS + 1].cmd = Cmd("FACTORY_ZEROS?", <<>>)
          /\ sess.factory_zero_adc \in {<<836, 835, -2, 0>>, <<7, 835, -2, 0>>}
          /\ sess.linear_zero_adc = sess.factory_zero_adc
    /\ sess.frontend = LOG =>
          /\ sess.lut_loaded
          /\ Len(sess.loglut_V_mV) > 0
          /\ Len(sess.loglut_V_mV) = Len(sess.loglut_log10P_Q16)

\* C10: a constructor step that fails (detection refused or naming neither
\* variant, I2C REFRESH refused, a CAL cell or the LOGCAL stream refused,
\* malformed or cut short, the factory zeros refused or malformed, a reply
\* that never comes) ends the constructor there with an exception and
\* without another command; after an exception no session exists and no
\* command follows; every session handed to a caller has its variant, and
\* all 32 cells and the zeros, or a non-empty LUT, as the device sent them.
C10_ConstructionAborts ==
    /\ [](/\ \A t \in Threads :
                (ConstructorOf(t) /\ th[t].pc = "idle" /\ th[t].out.kind = "raise") =>
                    ~sess.ready /\ Len(sent) = th[t].cid /\ th[t].calls = 1
          /\ sess.ready => SessionComplete)
    /\ [][\A t \in Threads :
             (InitFailed(t) /\ th'[t] # th[t]) =>
                 /\ th'[t].pc = "idle" /\ th'[t].out.kind = "raise"
                 /\ sent' = sent /\ ~sess'.ready]_vars

\* C10 witness: the constructor of a Linear session has raised on the reply
\* to CAL 3 5, the 24th command, and no session was handed out
C10_Witness ==
    \E t \in Threads :
        /\ ConstructorOf(t) /\ th[t].pc = "idle" /\ th[t].out.kind = "raise"
        /\ th[t].cmd = Cmd("CAL", <<3, 5>>) /\ th[t].line.st = "OK"
        /\ Len(sent) = 24 /\ ~sess.ready /\ sess.frontend = LINEAR

----------------------------------------------------------------------------
(* Frontend-gated operations and the Linear zero vectors                   *)

\* _require_frontend(expected, feature): passes on the expected frontend
RequireFrontend(s, expected) == s.frontend = expected

\* set_gain(head, value)
SetGainCall(t, head, value) ==
    /\ CanCall(t)
    /\ LET f == [Begin(t, "set_gain") EXCEPT !.head = head, !.gain = value]
       IN  th' = [th EXCEPT ![t] =
                    IF ~RequireFrontend(sess, LINEAR) THEN Unwind(f, "FeatureUnsupported")
                    ELSE IF head \notin 1..4 \/ value \notin 0..7
                    THEN Unwind(f, "ValueError")
                    ELSE Ask(f, Cmd("GAIN", <<head, value>>), "setgain_ret")]
    /\ UNCHANGED <<lock, ser_open, rx, devq, sent, lastIO, sess, dev>>

SetGainRet(t) ==
    /\ th[t].pc = "setgain_ret"
    /\ th' = [th EXCEPT ![t] =
                IF th[t].st # "OK" THEN Unwind(@, "ProtocolError")
                ELSE Return(@, <<>>)]
    /\ UNCHANGED <<lock, ser_open, rx, devq, sent, lastIO, sess, dev>>

\* get_gains()
GetGainsCall(t) ==
    /\ CanCall(t)
    /\ LET f == Begin(t, "get_gains")
       IN  th' = [th EXCEPT ![t] =
                    IF ~RequireFrontend(sess, LINEAR) THEN Unwind(f, "FeatureUnsupported")
                    ELSE Ask(f, Cmd("GAINS?", <<>>), "getgains_ret")]
    /\ UNCHANGED <<lock, ser_open, rx, devq, sent, lastIO, sess, dev>>

GetGainsRet(t) ==
    /\ th[t].pc = "getgains_ret"
    /\ LET g == GainsParse(th[t].line.pl)
       IN  th' = [th EXCEPT ![t] =
                    IF th[t].st # "OK" \/ ~g.ok THEN Unwind(@, "ProtocolError")
                    ELSE Return(@, g.gains)]
    /\ UNCHANGED <<lock, ser_open, rx, devq, sent, lastIO, sess, dev>>

\* voltage_to_power_W(v) on a scalar
VoltageToPowerCall(t, v) ==
    /\ CanCall(t)
    /\ LET f == [Begin(t, "voltage_to_power_W") EXCEPT !.v_volts = v]
       IN  th' = [th EXCEPT ![t] =
                    IF ~RequireFrontend(sess, LOG) THEN Unwind(f, "FeatureUnsupported")
                    ELSE IF ~sess.lut_loaded THEN Unwind(f, "LutNotLoaded")
                    ELSE Return(f, VoltageToPower(sess, v))]
    /\ UNCHANGED <<lock, ser_open, rx, devq, sent, lastIO, sess, dev>>

\* set_soft_zero_adc(z1, z2, z3, z4): host-side only
SetSoftZeroCall(t, z) ==
    /\ CanCall(t)
    /\ th' = [th EXCEPT ![t] = Return([Begin(t, "set_soft_zero_adc") EXCEPT !.z = z], <<>>)]
    /\ sess' = SetSoftZero(sess, z)
    /\ UNCHANGED <<lock, ser_open, rx, devq, sent, lastIO, dev>>

\* soft_zero_from_snapshot(n_frames)
SoftZeroSnapCall(t, n) ==
    /\ CanCall(t)
    /\ LET f == [Begin(t, "soft_zero_from_snapshot") EXCEPT !.sret = "softzero_ret"]
       IN  th' = [th EXCEPT ![t] =
                    IF ~RequireFrontend(sess, LINEAR) THEN Unwind(f, "FeatureUnsupported")
                    ELSE IF n <= 0 THEN Unwind(f, "ValueError")
                    ELSE Ask(f, Cmd("SNAP", <<n>>), "snap_armed")]
    /\ UNCHANGED <<lock, ser_open, rx, devq, sent, lastIO, sess, dev>>

\* ... with the zero-corrected codes stored instead of the raw ones
SoftZeroRetCorrected(t) ==
    /\ th[t].pc = "softzero_ret"
    /\ sess' = [sess EXCEPT !.linear_zero_adc = ApplyZero(sess, th[t].codes, "None")]
    /\ th' = [th EXCEPT ![t] = Return(@, [codes |-> th[t].codes, gains |-> th[t].gains])]
    /\ UNCHANGED <<lock, ser_open, rx, devq, sent, lastIO, dev>>

\* ... the codes of the snapshot become the active zeros
SoftZeroRet(t) ==
    /\ th[t].pc = "softzero_ret"
    /\ sess' = [sess EXCEPT !.linear_zero_adc = th[t].codes]
    /\ th' = [th EXCEPT ![t] = Return(@, [codes |-> th[t].codes, gains |-> th[t].gains])]
    /\ UNCHANGED <<lock, ser_open, rx, devq, sent, lastIO, dev>>

\* refresh_factory_zeros(): (0, 0, 0, 0) on a Log session, else the reload
RefreshZerosCall(t) ==
    /\ CanCall(t)
    /\ LET f == Begin(t, "refresh_factory_zeros")
       IN  th' = [th EXCEPT ![t] =
                    IF sess.frontend # LINEAR THEN Return(f, <<0, 0, 0, 0>>)
                    ELSE Ask(f, Cmd("FACTORY_ZEROS?", <<>>), "zeros_ret")]
    /\ UNCHANGED <<lock, ser_open, rx, devq, sent, lastIO, sess, dev>>

\* restore_factory_zero(): nothing on a Log session; the reload when the
\* factory zeros are all 0; else the active zeros become the factory zeros
RestoreZeroCall(t) ==
    /\ CanCall(t)
    /\ LET f == Begin(t, "restore_factory_zero")
       IN  IF sess.frontend # LINEAR
           THEN th' = [th EXCEPT ![t] = Return(f, <<>>)] /\ UNCHANGED sess
           ELSE IF sess.factory_zero_adc = <<0, 0, 0, 0>>
           THEN /\ th' = [th EXCEPT ![t] = Ask(f, Cmd("FACTORY_ZEROS?", <<>>), "zeros_ret")]
                /\ UNCHANGED sess
           ELSE /\ th' = [th EXCEPT ![t] = Return(f, <<>>)]
                /\ sess' = [sess EXCEPT !.linear_zero_adc = sess.factory_zero_adc]
    /\ UNCHANGED <<lock, ser_open, rx, devq, sent, lastIO, dev>>

\* the load with the active zeros left as they are
LoadZerosRetKeepActive(t) ==
    /\ th[t].pc = "zeros_ret"
    /\ LET f == th[t]
           r == ZerosParse(f.line.pl)
       IN  IF f.st # "OK" \/ ~r.ok
           THEN /\ th' = [th EXCEPT ![t] = Unwind(@, "ProtocolError")]
                /\ UNCHANGED sess
           ELSE /\ sess' = [sess EXCEPT !.factory_zero_adc = r.z]
                /\ th' = [th EXCEPT ![t] =
                            Return(@, IF f.op = "refresh_factory_zeros" THEN r.z ELSE <<>>)]
    /\ UNCHANGED <<lock, ser_open, rx, devq, sent, lastIO, dev>>

\* _load_factory_zeros after its exchange, called by refresh_factory_zeros
\* or restore_factory_zero: both vectors are set, or the parse raises
LoadZerosRet(t) ==
    /\ th[t].pc = "zeros_ret"
    /\ LET f == th[t]
           r == ZerosParse(f.line.pl)
       IN  IF f.st # "OK" \/ ~r.ok
           THEN /\ th' = [th EXCEPT ![t] = Unwind(@, "ProtocolError")]
                /\ UNCHANGED sess
           ELSE /\ sess' = [sess EXCEPT !.factory_zero_adc = r.z, !.linear_zero_adc = r.z]
                /\ th' = [th EXCEPT ![t] =
                            Return(@, IF f.op = "refresh_factory_zeros" THEN r.z ELSE <<>>)]
    /\ UNCHANGED <<lock, ser_open, rx, devq, sent, lastIO, dev>>

\* the exception dropped and the active zeros left as they are
RestoreExceptKeep(t) ==
    /\ th[t].pc = "restore_except"
    /\ th' = [th EXCEPT ![t] = Return(@, <<>>)]
    /\ UNCHANGED <<lock, ser_open, rx, devq, sent, lastIO, sess, dev>>

\* restore_factory_zero after its reload raised: the exception is dropped
RestoreExcept(t) ==
    /\ th[t].pc = "restore_except"
    /\ sess' = [sess EXCEPT !.linear_zero_adc = sess.factory_zero_adc]
    /\ th' = [th EXCEPT ![t] = Return(@, <<>>)]
    /\ UNCHANGED <<lock, ser_open, rx, devq, sent, lastIO, dev>>

----------------------------------------------------------------------------
(* One caller on a constructed session: gated operations and zeroing *)

\* sessions as earlier calls have left them: the zeros as loaded, a soft
\* zero over them, factory zeros of 0 (as loaded, or under a soft zero)
ZeroSessions ==
    {SessLinear, SetSoftZero(SessLinear, <<-3, 5, 0, 100>>),
     [SessLinear EXCEPT !.factory_zero_adc = <<0, 0, 0, 0>>,
                        !.linear_zero_adc = <<0, 0, 0, 0>>],
     [SessLinear EXCEPT !.factory_zero_adc = <<0, 0, 0, 0>>,
                        !.linear_zero_adc = <<1, 1, 1, 1>>],
     SessLog}

ZeroProfile ==
    [sts |-> {"OK", "ERR"},
     zerosq |-> {<<I(836), I(835), I(-2), I(0)>>,
                 <<KV("H1", 836), KV("h2", 835), KV("h3", -2), KV("h4", 0), KV("h1", 7)>>,
                 <<I(0), I(0), I(0), I(0)>>,
                 <<I(836), I(835), I(834)>>},
     snaps |-> {SnapPl(<<3, 0, -328, 1966>>, <<2, 2, 0, 5>>)},
     gainsq |-> {GainsPl(<<0, 3, 7, 1>>), <<I(1), I(2)>>},
     pats |-> {}, shorts |-> {}, cuts |-> {}]

\* the arguments the caller passes
SoftZeroArgs == {<<1, -2, 3, 0>>, <<0, 0, 0, 0>>}
SetGainArgs == {<<1, 3>>, <<5, 0>>, <<2, 8>>}

\* a construction arrived at its last step: HEAD_TYPE? answered Linear, I2C
\* REFRESH and the 32 CAL queries answered, FACTORY_ZEROS? about to be asked
SessBuilding ==
    [Sess0 EXCEPT !.frontend = LINEAR,
        !.cal_slope = [h \in 1..NUM_HEADS |-> [g \in 0..(NUM_GAINS - 1) |->
                          F32Value(CalBits[h][g].s)]],
        !.cal_intercept = [h \in 1..NUM_HEADS |-> [g \in 0..(NUM_GAINS - 1) |->
                          F32Value(CalBits[h][g].i)]]]

SentBuilding ==
    [i \in 1..(2 + NUM_HEADS * NUM_GAINS) |->
        [by |-> 1, id |-> i,
         cmd |-> IF i = 1 THEN DetectCmd
                 ELSE IF i = 2 THEN SimpleCmds.i2c_refresh
                 ELSE Cmd("CAL", <<((i - 3) \div NUM_GAINS) + 1, (i - 3) % NUM_GAINS>>)]]

FrameBuilding ==
    [IdleFrame EXCEPT !.op = "__init__", !.calls = 1, !.budget = MaxSeqCalls + 1,
        !.pc = "ask", !.cmd = Cmd("FACTORY_ZEROS?", <<>>), !.ret = "init_zeros",
        !.cid = 2 + NUM_HEADS * NUM_GAINS, !.st = "OK",
        !.line = Line("OK", CalPl(NUM_HEADS, NUM_GAINS - 1,
                                  CalBits[NUM_HEADS][NUM_GAINS - 1]),
                      2 + NUM_HEADS * NUM_GAINS),
        !.head = NUM_HEADS, !.gain = NUM_GAINS - 1]

InitZero ==
    \/ /\ th = [t \in {1} |-> [IdleFrame EXCEPT !.budget = MaxSeqCalls]]
       /\ sess \in ZeroSessions
       /\ IdleWire
    \/ /\ th = [t \in {1} |-> FrameBuilding]
       /\ sess = SessBuilding
       /\ lock = NoThread
       /\ ser_open = TRUE
       /\ rx = <<>>
       /\ devq = <<>>
       /\ sent = SentBuilding
       /\ lastIO = [by |-> 1, kind |-> "read", tick |-> 0]
       /\ dev = [payload |-> <<>>, xfer |-> 0, busy |-> 0, head |-> <<>>, boot |-> FALSE]

NextZero ==
    \/ \E t \in Threads : InitZeros(t)
    \/ \E t \in Threads, a \in SetGainArgs : sess.ready /\ SetGainCall(t, a[1], a[2])
    \/ \E t \in Threads : SetGainRet(t)
    \/ \E t \in Threads : sess.ready /\ GetGainsCall(t)
    \/ \E t \in Threads : GetGainsRet(t)
    \/ \E t \in Threads : sess.ready /\ VoltageToPowerCall(t, Q(1, 5))
    \/ \E t \in Threads, z \in SoftZeroArgs : sess.ready /\ SetSoftZeroCall(t, z)
    \/ \E t \in Threads, n \in {0, 32} : sess.ready /\ SoftZeroSnapCall(t, n)
    \/ \E t \in Threads : SoftZeroRet(t)
    \/ \E t \in Threads : sess.ready /\ RefreshZerosCall(t)
    \/ \E t \in Threads : sess.ready /\ RestoreZeroCall(t)
    \/ \E t \in Threads : LoadZerosRet(t)
    \/ \E t \in Threads : RestoreExcept(t)
    \/ \E t \in Threads : AskLock(t)
    \/ \E t \in Threads : AskWrite(t)
    \/ \E t \in Threads : AskRead(t)
    \/ \E t \in Threads : SnapArmed(t)
    \/ \E t \in Threads : SnapPoll(t)
    \/ DevReply(ZeroProfile)

SpecZero == InitZero /\ [][NextZero]_vars

\* the operations that need one frontend, and the frontend each needs
GatedOps ==
    [set_gain |-> LINEAR, get_gains |-> LINEAR, soft_zero_from_snapshot |-> LINEAR,
     set_soft_zero_adc |-> LINEAR, restore_factory_zero |-> LINEAR,
     refresh_factory_zeros |-> LINEAR, voltage_to_power_W |-> LOG]

\* C11: a frontend-gated operation (set_gain, get_gains,
\* soft_zero_from_snapshot, set_soft_zero_adc, restore_factory_zero,
\* refresh_factory_zeros need Linear; voltage_to_power_W needs Log) called
\* on the other frontend ends by raising FeatureUnsupported.
C11_GatedRaise ==
    \A t \in Threads :
        (/\ th[t].op \in DOMAIN GatedOps
         /\ sess.frontend # GatedOps[th[t].op]
         /\ th[t].pc = "idle") =>
            th[t].out = Raised("FeatureUnsupported")

----------------------------------------------------------------------------
(* Claims on the Linear power conversion (SpecConv) *)

\* the gains select a cell each, and one of the cells has slope 0
ZeroSlopeSelected(gains) ==
    /\ \A c \in 1..NUM_HEADS : gains[c] \in 0..(NUM_GAINS - 1)
    /\ \E c \in 1..NUM_HEADS : sess.cal_slope[c][gains[c]] = QZero

\* the gains of an OK reply to GAINS?: HEAD1=g1 .. HEAD4=g4
ReportedGains(pl) == <<pl[2].v, pl[4].v, pl[6].v, pl[8].v>>

\* C12: on a Linear session, when snapshot_W or transfer_frames_W has its
\* readings and the 4 gains (each an index 0..7) and the slope of the cell
\* selected by any of the 4 channels is exactly zero, the call raises
\* InvalidCalibration; it returns no power of any channel: a call that has
\* returned powers selected 4 cells of non-zero slope.
C12_ZeroSlope ==
    /\ [](\A t \in Threads :
            (/\ sess.frontend = LINEAR
             /\ th[t].op \in {"snapshot_W", "transfer_frames_W"}
             /\ th[t].pc = "idle" /\ th[t].out.kind = "return") =>
                \A c \in 1..NUM_HEADS :
                    /\ th[t].gains[c] \in 0..(NUM_GAINS - 1)
                    /\ sess.cal_slope[c][th[t].gains[c]] # QZero)
    /\ [][\A t \in Threads :
            /\ (/\ sess.frontend = LINEAR /\ th[t].op = "snapshot_W"
                /\ th[t].pc = "snap_ret" /\ ZeroSlopeSelected(th[t].gains)) =>
                    th'[t].pc = "idle" /\ th'[t].out = Raised("InvalidCalibration")
            /\ (/\ sess.frontend = LINEAR /\ th[t].op = "transfer_frames_W"
                /\ th[t].pc = "xfer_gains" /\ th[t].st = "OK"
                /\ Len(th[t].line.pl) = 2 * NUM_HEADS /\ AllInt(th[t].line.pl, 1, 2 * NUM_HEADS)
                /\ ZeroSlopeSelected(ReportedGains(th[t].line.pl))) =>
                    th'[t].pc = "idle" /\ th'[t].out = Raised("InvalidCalibration")]_vars

\* C12 witness: snapshot_W read gains 0 3 7 1, the cell of channel 3 at
\* gain 7 has slope 0 while channels 1 and 2 could be converted, and the
\* call raised
C12_Witness ==
    \E t \in Threads :
        /\ sess = SessLinearZ /\ th[t].op = "snapshot_W"
        /\ th[t].gains = <<0, 3, 7, 1>> /\ th[t].codes = <<1311, 328, 3277, -1311>>
        /\ th[t].pc = "idle" /\ th[t].out = Raised("InvalidCalibration")

----------------------------------------------------------------------------
(* Claims on the calibration download (SpecInit) *)

\* the k-th CAL query of a construction, k = 1..32: channel outer, gain inner
CalQuery(k) == Cmd("CAL", <<((k - 1) \div NUM_GAINS) + 1, (k - 1) % NUM_GAINS>>)

\* the reply to a CAL query is refused, lacks a field or is malformed
CellBad(f) ==
    LET pl == f.line.pl
        S == {i \in 1..Len(pl) : pl[i].t \in {"kv", "kvw", "hex"} /\ pl[i].k = "S"}
        N == {i \in 1..Len(pl) : pl[i].t \in {"kv", "kvw", "hex"} /\ pl[i].k = "I"}
    IN  \/ f.st # "OK"
        \/ S = {} \/ N = {}
        \/ Len(pl) < 4
        \/ \E i \in S \cup N : i \in {Last(S), Last(N)} /\ ~IsHex32(pl[i])

\* C13: the CAL queries of a construction are sent in the order channel
\* 1..4 outer, gain 0..7 inner, from the third command on; a Linear session
\* is handed over only after all 32; a CAL reply that is refused, lacks S=
\* or I= or is malformed makes the constructor raise at once, with no
\* further query, and any other reply lets it go on to the next query.
C13_CalComplete ==
    /\ [](/\ \A i \in SentNamed("CAL") :
                i \in 3..(2 + NUM_HEADS * NUM_GAINS) /\ sent[i].cmd = CalQuery(i - 2)
          /\ sess.frontend = LINEAR =>
                \A i \in 3..Len(sent) :
                    i <= 2 + NUM_HEADS * NUM_GAINS => i \in SentNamed("CAL")
          /\ (sess.ready /\ sess.frontend = LINEAR) =>
                Cardinality(SentNamed("CAL")) = NUM_HEADS * NUM_GAINS
          /\ \A t \in Threads :
                (ConstructorOf(t) /\ th[t].pc = "idle" /\ th[t].cmd.name = "CAL") =>
                    /\ th[t].out.kind = "raise"
                    /\ sent[Len(sent)].cmd = th[t].cmd)
    /\ [][\A t \in Threads :
            (ConstructorOf(t) /\ th[t].pc = "init_cal" /\ th'[t] # th[t]) =>
                IF CellBad(th[t])
                THEN th'[t].pc = "idle" /\ th'[t].out.kind = "raise" /\ sent' = sent
                ELSE /\ th'[t].pc = "ask"
                     /\ th'[t].cmd = IF th[t].cid = 2 + NUM_HEADS * NUM_GAINS
                                     THEN Cmd("FACTORY_ZEROS?", <<>>)
                                     ELSE CalQuery(th[t].cid - 1)]_vars

\* C13 witness: the reply to CAL 2 0, the ninth query, came without an I=
\* field and the constructor raised there
C13_Witness ==
    \E t \in Threads :
        /\ ConstructorOf(t) /\ th[t].pc = "idle" /\ th[t].out.kind = "raise"
        /\ th[t].cmd = Cmd("CAL", <<2, 0>>) /\ th[t].st = "OK"
        /\ th[t].line.pl = <<WN("H", 1), WN("G", 0), KX("S", <<16672, 0>>), W("I")>>
        /\ Cardinality(SentNamed("CAL")) = 9 /\ Len(sent) = 11 /\ ~sess.ready

----------------------------------------------------------------------------
(* Claims on the LUT download (SpecInit) *)

\* C14: the lookup table of every constructed Log session is non-empty,
\* has as many voltages as log-powers, and its voltages are in ascending
\* order, whatever LUT stream the device sent.
C14_LutInvariant ==
    (sess.ready /\ sess.frontend = LOG) =>
        /\ Len(sess.loglut_V_mV) > 0
        /\ Len(sess.loglut_V_mV) = Len(sess.loglut_log10P_Q16)
        /\ \A i, j \in 1..Len(sess.loglut_V_mV) :
              i < j => sess.loglut_V_mV[i] <= sess.loglut_V_mV[j]


\* the line is a LOGCAL header, and the record size and point count it gives
HeaderLine(l) ==
    /\ l.st = "OK"
    /\ \E i \in 1..Len(l.pl) : l.pl[i].t = "word" /\ l.pl[i].k = "H"
    /\ \E i \in 1..Len(l.pl) : l.pl[i].t \in {"kv", "kvw"} /\ l.pl[i].k = "N"
    /\ \E i \in 1..Len(l.pl) : l.pl[i].t \in {"kv", "kvw"} /\ l.pl[i].k = "RB"
HeaderRb(l) == l.pl[CHOOSE i \in 1..Len(l.pl) : l.pl[i].k = "RB"].v
HeaderN(l) == l.pl[CHOOSE i \in 1..Len(l.pl) : l.pl[i].k = "N"].v

\* the next line to read is the terminator
DoneNext == rx # <<>> /\ Head(rx).k = "line" /\ Head(rx).st = "OK" /\ Head(rx).pl = <<W("DONE")>>

\* C15: the LOGCAL download goes header, payload, terminator.  Payload is
\* read only after a header line with N=<n> and RB=6 came within the 120
\* line reads of the header loop; the terminator is awaited only with
\* exactly n*6 payload bytes in hand; the LUT is accepted only on an
\* 'OK DONE' line read within the 120 line reads of the terminator loop.  A
\* header with RB # 6 raises having consumed the header line alone; a
\* payload that stops short raises; 120 reads without 'OK DONE' raise.
C15_LogcalOrder ==
    [][\A t \in Threads :
         LET f == th[t]
             g == th'[t]
         IN  (ConstructorOf(t) /\ g # f) =>
             /\ (g.pc = "logcal_payload" /\ f.pc # "logcal_payload") =>
                    /\ f.pc = "logcal_header" /\ f.tries < LOGCAL_ATTEMPTS
                    /\ rx # <<>> /\ HeaderLine(ReadLineOf(Head(rx)))
                    /\ HeaderRb(ReadLineOf(Head(rx))) = 6
                    /\ g.n_pts = HeaderN(ReadLineOf(Head(rx)))
                    /\ g.buf = <<>> /\ rx' = Tail(rx)
             /\ (g.pc = "logcal_done" /\ f.pc # "logcal_done") =>
                    /\ f.pc = "logcal_payload" /\ Len(f.buf) = f.n_pts * 6
                    /\ g.buf = f.buf /\ g.tries = 0 /\ rx' = rx
             /\ (sess'.ready /\ ~sess.ready /\ sess.frontend = LOG) =>
                    /\ f.pc = "logcal_done" /\ f.tries < LOGCAL_ATTEMPTS /\ DoneNext
                    /\ Len(f.buf) = f.n_pts * 6
                    /\ Len(sess'.loglut_V_mV) = f.n_pts
             /\ (/\ f.pc = "logcal_header" /\ f.tries < LOGCAL_ATTEMPTS /\ rx # <<>>
                 /\ HeaderLine(ReadLineOf(Head(rx)))
                 /\ Head(rx).pl[CHOOSE i \in 1..Len(Head(rx).pl) : Head(rx).pl[i].k = "RB"].t = "kv"
                 /\ HeaderRb(ReadLineOf(Head(rx))) # 6) =>
                    /\ g.pc = "idle" /\ g.out.kind = "raise"
                    /\ rx' = Tail(rx) /\ g.buf = <<>> /\ ~sess'.ready
             /\ (f.pc = "logcal_payload" /\ Len(f.buf) < f.need /\ rx = <<>>) =>
                    g.pc = "idle" /\ g.out.kind = "raise" /\ ~sess'.ready
             /\ (f.pc \in {"logcal_header", "logcal_done"} /\ f.tries >= LOGCAL_ATTEMPTS) =>
                    g.pc = "idle" /\ g.out.kind = "raise" /\ ~sess'.ready
             /\ (f.pc \in {"logcal_header", "logcal_done"} /\ g.pc = f.pc) =>
                    g.tries = f.tries + 1 /\ g.tries <= LOGCAL_ATTEMPTS]_vars

\* C15 witness: the terminator loop used up its 120 reads on a stream that
\* carried header and payload of 3 points but no 'OK DONE', and the
\* constructor raised
C15_Witness ==
    \E t \in Threads :
        /\ ConstructorOf(t) /\ th[t].pc = "idle" /\ th[t].out.kind = "raise"
        /\ th[t].cmd = Cmd("LOGCAL", <<1>>)
        /\ th[t].n_pts = 3 /\ Len(th[t].buf) = 18 /\ th[t].tries = LOGCAL_ATTEMPTS
        /\ ~sess.ready /\ sess.frontend = LOG

----------------------------------------------------------------------------
(* The LUT record format: a synthetic table is packed as the device packs *)
(* it, read as the payload of a LOGCAL download and decoded               *)

\* millivolts and Q16 log-powers at the edges of uint16 and int32
LutMv == {0, 1, 255, 256, 65535}
LutQ16 == {-2147483647 - 1, -65536, -1, 0, 1, 2147483647}

\* the tables of 1..MaxPts points
LutInputs ==
    UNION {[1..n -> LutMv \X LutQ16] : n \in 1..MaxPts}

InitLut ==
    /\ th = [t \in {1} |-> [IdleFrame EXCEPT !.op = "__init__", !.pc = "lut_send"]]
    /\ sess = [Sess0 EXCEPT !.frontend = LOG]
    /\ lock = 1
    /\ ser_open = TRUE
    /\ rx = <<>>
    /\ devq = <<>>
    /\ sent = <<>>
    /\ lastIO = [by |-> NoThread, kind |-> "none", tick |-> 0]
    /\ \E l \in LutInputs : dev = [lut |-> l]

\* the device packs the table: n records of 6 bytes; the header has told n
LutSend(t) ==
    /\ th[t].pc = "lut_send"
    /\ rx' = <<Bytes(LutBytes(dev.lut), 0)>>
    /\ th' = [th EXCEPT ![t].pc = "lut_read", ![t].n_pts = Len(dev.lut),
                        ![t].need = 6 * Len(dev.lut)]
    /\ UNCHANGED <<lock, ser_open, devq, sent, lastIO, sess, dev>>

\* payload = self._ser.read(payload_len)
LutRead(t) ==
    /\ th[t].pc = "lut_read"
    /\ th' = [th EXCEPT ![t].pc = "lut_decode", ![t].buf = ReadDataOf(Head(rx), th[t].need)]
    /\ rx' = ReadRestOf(Head(rx), th[t].need)
    /\ lastIO' = IO(t, "read")
    /\ UNCHANGED <<lock, ser_open, devq, sent, sess, dev>>

\* the decode loop and the stores
LutStore(t) ==
    /\ th[t].pc = "lut_decode"
    /\ LET lut == LutDecode(th[t].buf, th[t].n_pts)
       IN  sess' = [sess EXCEPT !.loglut_V_mV = [i \in 1..Len(lut) |-> lut[i][1]],
                                !.loglut_log10P_Q16 = [i \in 1..Len(lut) |-> lut[i][2]],
                                !.lut_loaded = TRUE]
    /\ th' = [th EXCEPT ![t].pc = "lut_stored"]
    /\ UNCHANGED <<lock, ser_open, rx, devq, sent, lastIO, dev>>

NextLut ==
    \/ \E t \in Threads : LutSend(t)
    \/ \E t \in Threads : LutRead(t)
    \/ \E t \in Threads : LutStore(t)

SpecLut == InitLut /\ [][NextLut]_vars

\* C16: a table of n >= 1 points (mV in 0..65535, Q16 in the int32 range)
\* packed as 6-byte little-endian records (uint16 mV, int32 Q16) and decoded
\* by the driver comes back as the same mV and the same Q16 sequences, in
\* order, negative Q16 values included.
C16_LutRoundTrip ==
    \A t \in Threads :
        th[t].pc = "lut_stored" =>
            /\ Len(sess.loglut_V_mV) = Len(dev.lut)
            /\ Len(sess.loglut_log10P_Q16) = Len(dev.lut)
            /\ \A i \in 1..Len(dev.lut) :
                  /\ sess.loglut_V_mV[i] = dev.lut[i][1]
                  /\ sess.loglut_log10P_Q16[i] = dev.lut[i][2]

\* C16 witness: a table of two points, 256 mV with the least int32 and
\* 65535 mV with -1, has been decoded
C16_Witness ==
    \E t \in Threads :
        /\ th[t].pc = "lut_stored"
        /\ dev.lut = <<<<256, -2147483647 - 1>>, <<65535, -1>>>>
        /\ sess.loglut_log10P_Q16 = <<-2147483647 - 1, -1>>
        /\ Len(th[t].buf) = 12

----------------------------------------------------------------------------
(* The Log interpolation at the knots of the table *)

KnotMv == {0, 200, 1000, 5000}
KnotQ16 == {-589824, -393216, 0}

\* the tables of 1..MaxPts+1 points whose voltages ascend, strictly or not
KnotLuts ==
    UNION {{l \in [1..n -> KnotMv \X KnotQ16] :
               \A i \in 1..(n - 1) : l[i][1] <= l[i + 1][1]} : n \in 1..(MaxPts + 1)}

\* the voltages asked for: the knots, and between, below and above them
KnotQueries == {Q(m, 1000) : m \in KnotMv \cup {-50, 600, 6000}}

InitKnot ==
    /\ th = [t \in {1} |-> [IdleFrame EXCEPT !.budget = 1]]
    /\ \E l \in KnotLuts :
          sess = [SessLog EXCEPT !.loglut_V_mV = [i \in 1..Len(l) |-> l[i][1]],
                                 !.loglut_log10P_Q16 = [i \in 1..Len(l) |-> l[i][2]]]
    /\ IdleWire

NextKnot == \E t \in Threads, v \in KnotQueries : VoltageToPowerCall(t, v)

SpecKnot == InitKnot /\ [][NextKnot]_vars

\* the knots of the loaded table that lie at voltage v
KnotsAt(v) == {k \in 1..Len(sess.loglut_V_mV) : Q(sess.loglut_V_mV[k], 1000) = v}

\* C17: on a table whose voltages ascend, strictly or weakly,
\* voltage_to_power_W asked at exactly the voltage V[k] of any knot k returns
\* 10^log10P[k].
C17_KnotExact ==
    \A t \in Threads :
        (HasReturned(t, "voltage_to_power_W")) =>
            \A k \in KnotsAt(th[t].v_volts) :
                th[t].out.val = TenTo(Q(sess.loglut_log10P_Q16[k], 65536))

\* C17 amended: ... asked at exactly the voltage of a knot it returns
\* 10^log10P[k] of a knot k at that voltage: of the knot itself where the
\* voltage occurs once in the table (so at every knot of a strictly
\* ascending table), of the first or of the last of the knots that share it
\* otherwise.
C17_KnotValue ==
    \A t \in Threads :
        (HasReturned(t, "voltage_to_power_W") /\ KnotsAt(th[t].v_volts) # {}) =>
            LET K == KnotsAt(th[t].v_volts)
            IN  th[t].out.val \in
                    {TenTo(Q(sess.loglut_log10P_Q16[k], 65536)) :
                        k \in {First(K), Last(K)}}

\* C17 witness: the query at 1 V, the inner knot of the strictly ascending
\* table 0.2 V, 1 V, 5 V, has returned 10^-6
C17_Witness ==
    \E t \in Threads :
        /\ HasReturned(t, "voltage_to_power_W")
        /\ sess.loglut_V_mV = <<200, 1000, 5000>>
        /\ sess.loglut_log10P_Q16 = <<-589824, -393216, 0>>
        /\ th[t].v_volts = Q(1000, 1000)
        /\ th[t].out.val = TenTo(Q(-6, 1))

----------------------------------------------------------------------------
(* Claims on the zero vectors (SpecZero) *)

\* the 4 values of a well-formed FACTORY_ZEROS? reply: plain integers, or
\* h1= .. h4= in either case of the key, the later of two for one channel
ReportedZeros(pl) ==
    IF \A i \in 1..Len(pl) : pl[i].t = "int"
    THEN <<pl[1].v, pl[2].v, pl[3].v, pl[4].v>>
    ELSE LET keys == <<{"h1", "H1"}, {"h2", "H2"}, {"h3", "H3"}, {"h4", "H4"}>>
         IN  [c \in 1..NUM_HEADS |->
                pl[Last({i \in 1..Len(pl) : pl[i].t = "kv" /\ pl[i].k \in keys[c]})].v]

\* C18: when the constructor of a Linear session or refresh_factory_zeros
\* has returned, the active zeros equal the factory zeros and both are the 4
\* values of the device's reply, whatever soft zero was active before; the
\* load itself replaces both vectors in one step.
C18_FactoryLoad ==
    /\ [](\A t \in Threads :
            (/\ sess.frontend = LINEAR
             /\ \/ HasReturned(t, "__init__")
                \/ HasReturned(t, "refresh_factory_zeros")) =>
                /\ sess.factory_zero_adc = ReportedZeros(th[t].line.pl)
                /\ sess.linear_zero_adc = sess.factory_zero_adc)
    /\ [][\A t \in Threads :
            (/\ th[t].pc \in {"init_zeros", "zeros_ret"}
             /\ th'[t].pc = "idle" /\ th'[t].out.kind = "return"
             /\ th[t].op # "restore_factory_zero") =>
                /\ th[t].st = "OK" /\ Len(th[t].line.pl) >= NUM_HEADS
                /\ sess'.factory_zero_adc = ReportedZeros(th[t].line.pl)
                /\ sess'.linear_zero_adc = ReportedZeros(th[t].line.pl)]_vars

\* C18 witness: on a session whose factory zeros were 10 0 -7 836,
\* refresh_factory_zeros has returned the device's h1=7 (given after
\* H1=836) h2=835 h3=-2 h4=0 and both vectors hold them
C18_Witness ==
    \E t \in Threads :
        /\ HasReturned(t, "refresh_factory_zeros") /\ th[t].calls = 1
        /\ Len(th[t].line.pl) = 5
        /\ th[t].out.val = <<7, 835, -2, 0>>
        /\ sess.linear_zero_adc = <<7, 835, -2, 0>>
        /\ sess.factory_zero_adc = <<7, 835, -2, 0>>
        /\ sess.cal_slope = CalSlopeA

\* C19: set_soft_zero_adc(z1..z4) on a Linear session makes the active
\* zeros exactly z1..z4, leaves the factory zeros as they were and writes
\* nothing to the device.
C19_SoftZero ==
    /\ [](\A t \in Threads :
            (sess.frontend = LINEAR /\ HasReturned(t, "set_soft_zero_adc")) =>
                sess.linear_zero_adc = th[t].z)
    /\ [][\A t \in Threads :
            (/\ sess.frontend = LINEAR /\ th'[t] # th[t]
             /\ th'[t].op = "set_soft_zero_adc") =>
                /\ th'[t].pc = "idle" /\ th'[t].out.kind = "return"
                /\ sess'.linear_zero_adc = th'[t].z
                /\ sess'.factory_zero_adc = sess.factory_zero_adc
                /\ sent' = sent /\ devq' = devq /\ rx' = rx /\ lock' = lock]_vars

\* C19 witness: set_soft_zero_adc(1, -2, 3, 0) has returned on the session
\* whose factory zeros are 10 0 -7 836, and nothing was written
C19_Witness ==
    \E t \in Threads :
        /\ HasReturned(t, "set_soft_zero_adc") /\ th[t].z = <<1, -2, 3, 0>>
        /\ sess.frontend = LINEAR
        /\ sess.linear_zero_adc = <<1, -2, 3, 0>>
        /\ sess.factory_zero_adc = FactoryZerosA
        /\ sent = <<>>

\* C20: whenever restore_factory_zero has returned on a Linear session the
\* active zeros equal the factory zeros; the factory zeros are those loaded
\* last: the values of the reply when the call reloaded them (they were all
\* 0) and the reload succeeded, and unchanged otherwise.
C20_Restore ==
    /\ [](\A t \in Threads :
            (sess.frontend = LINEAR /\ HasReturned(t, "restore_factory_zero")) =>
                sess.linear_zero_adc = sess.factory_zero_adc)
    /\ [][\A t \in Threads :
            (/\ sess.frontend = LINEAR /\ th'[t] # th[t]
             /\ th'[t].op = "restore_factory_zero" /\ th'[t].pc = "idle") =>
                /\ th'[t].out.kind = "return"
                /\ sess'.linear_zero_adc = sess'.factory_zero_adc
                /\ sess'.factory_zero_adc =
                      IF th[t].pc = "zeros_ret" THEN ReportedZeros(th[t].line.pl)
                      ELSE sess.factory_zero_adc]_vars

\* C20 witness: the factory zeros were all 0, the reload inside
\* restore_factory_zero, the second call on the session, was refused, and
\* the call has returned with the active zeros at 0
C20_Witness ==
    \E t \in Threads :
        /\ HasReturned(t, "restore_factory_zero") /\ th[t].calls = 2
        /\ th[t].st = "ERR" /\ Len(sent) = 1
        /\ sent[1].cmd = Cmd("FACTORY_ZEROS?", <<>>)
        /\ sess.frontend = LINEAR
        /\ sess.factory_zero_adc = <<0, 0, 0, 0>>
        /\ sess.linear_zero_adc = <<0, 0, 0, 0>>

----------------------------------------------------------------------------
(* Claims on the frame of restore_factory_zero (SpecZero) *)

\* C21: on a Linear session whose factory zeros construction has loaded,
\* whatever their value, no step of restore_factory_zero writes a command
\* (so no FACTORY_ZEROS? query) or changes the factory zero vector.
C21_RestoreFrame ==
    [][\A t \in Threads :
          (/\ th[t].op = "restore_factory_zero"
           /\ th[t].pc # "idle"
           /\ sess.frontend = LINEAR) =>
              /\ sent' = sent
              /\ sess'.factory_zero_adc = sess.factory_zero_adc]_vars

----------------------------------------------------------------------------
(* Acquisition control: arm_acquisition, state_enum, wait_for_completion   *)

\* the polarity letter of TRIGARM
Pol(trigger_rising) == IF trigger_rising THEN "R" ELSE "F"

\* arm_acquisition(frames, use_trigger, trigger_rising)
ArmCall(t, frames, use_trigger, trigger_rising) ==
    /\ CanCall(t)
    /\ LET f == [Begin(t, "arm_acquisition") EXCEPT
                    !.frames = frames, !.use_trigger = use_trigger,
                    !.trigger_rising = trigger_rising]
       IN  th' = [th EXCEPT ![t] =
                    IF frames <= 0 THEN Unwind(f, "ValueError")
                    ELSE Ask(f, Cmd("ACQ ARM", <<frames>>), "arm_ret")]
    /\ UNCHANGED <<lock, ser_open, rx, devq, sent, lastIO, sess, dev>>

\* the trigger armed even after ACQ ARM was refused
ArmRetAlways(t) ==
    /\ th[t].pc = "arm_ret"
    /\ th' = [th EXCEPT ![t] =
                IF th[t].use_trigger
                THEN Ask(@, Cmd("TRIGARM", <<th[t].frames, Pol(th[t].trigger_rising)>>),
                         "trig_ret")
                ELSE IF th[t].st # "OK" THEN Unwind(@, "ArmFailed")
                ELSE Return(@, <<>>)]
    /\ UNCHANGED <<lock, ser_open, rx, devq, sent, lastIO, sess, dev>>

\* the reply to ACQ ARM <frames>
ArmRet(t) ==
    /\ th[t].pc = "arm_ret"
    /\ th' = [th EXCEPT ![t] =
                IF th[t].st # "OK" THEN Unwind(@, "ArmFailed")
                ELSE IF th[t].use_trigger
                THEN Ask(@, Cmd("TRIGARM", <<th[t].frames, Pol(th[t].trigger_rising)>>),
                         "trig_ret")
                ELSE Return(@, <<>>)]
    /\ UNCHANGED <<lock, ser_open, rx, devq, sent, lastIO, sess, dev>>

\* the reply to TRIGARM <frames> <pol>
TrigRet(t) ==
    /\ th[t].pc = "trig_ret"
    /\ th' = [th EXCEPT ![t] =
                IF th[t].st # "OK" THEN Unwind(@, "ArmFailed")
                ELSE Return(@, <<>>)]
    /\ UNCHANGED <<lock, ser_open, rx, devq, sent, lastIO, sess, dev>>

\* _parse_int(p) on the payload of a reply: one integer token, or no value
ParseInt(pl) ==
    IF Len(pl) = 1 /\ pl[1].t = "int" THEN [ok |-> TRUE, v |-> pl[1].v]
    ELSE [ok |-> FALSE, v |-> 0]

READY_STATE == 4

\* wait_for_completion(poll_s, timeout_s): t0 is taken, the first
\* state_enum() is called
WaitCall(t, timeout_s) ==
    /\ CanCall(t)
    /\ th' = [th EXCEPT ![t] =
                Ask([Begin(t, "wait_for_completion") EXCEPT !.timeout_s = timeout_s],
                    Cmd("STATE?", <<>>), "wait_poll")]
    /\ UNCHANGED <<lock, ser_open, rx, devq, sent, lastIO, sess, dev>>

\* the loop leaving on any state code
WaitPollAnyState(t) ==
    /\ th[t].pc = "wait_poll"
    /\ LET f == th[t]
           r == ParseInt(f.line.pl)
       IN  th' = [th EXCEPT ![t] =
                    IF f.st # "OK" THEN Unwind(f, "ProtocolError")
                    ELSE IF ~r.ok THEN Unwind(f, "ValueError")
                    ELSE Return(f, <<>>)]
    /\ UNCHANGED <<lock, ser_open, rx, devq, sent, lastIO, sess, dev>>

\* one turn of the loop, after state_enum()'s exchange: a reply that is
\* not OK or not a number raises out of state_enum; state 4 returns; else
\* the clock is read when there is a timeout_s (time.time() - t0 is `now`:
\* the exchange and the sleep of each turn move it on by a tick or more),
\* and the loop sleeps and polls again
WaitPoll(t) ==
    /\ th[t].pc = "wait_poll"
    /\ LET f == th[t]
           r == ParseInt(f.line.pl)
       IN  \E now \in (f.elapsed + 1)..(f.elapsed + 2) :
             th' = [th EXCEPT ![t] =
                      IF f.st # "OK" THEN Unwind(f, "ProtocolError")
                      ELSE IF ~r.ok THEN Unwind(f, "ValueError")
                      ELSE IF r.v = READY_STATE THEN Return(f, <<>>)
                      ELSE IF f.timeout_s.some /\ now > f.timeout_s.s
                      THEN Unwind([f EXCEPT !.elapsed = now], "AcquisitionTimeout")
                      ELSE IF f.timeout_s.some
                      THEN Ask([f EXCEPT !.elapsed = now], Cmd("STATE?", <<>>), "wait_poll")
                      ELSE IF f.tries < MaxWait
                      THEN Ask([f EXCEPT !.tries = f.tries + 1],
                               Cmd("STATE?", <<>>), "wait_poll")
                      ELSE f]
    /\ th'[t] # th[t]
    /\ UNCHANGED <<lock, ser_open, rx, devq, sent, lastIO, sess, dev>>

----------------------------------------------------------------------------
(* One caller arming, polling and snapshotting on a constructed session *)

\* the device answers STATE? with a state code (4 is ready), with a line
\* that is no number, or refuses; it answers SNAP? with a snapshot
AcqProfile ==
    [sts |-> {"OK", "ERR"},
     states |-> {<<I(4)>>, <<I(2)>>, <<I(0)>>, <<W("READY")>>},
     snaps |-> {SnapPl(<<3, 0, -328, 1966>>, <<2, 2, 0, 5>>)},
     gainsq |-> {}, pats |-> {}, shorts |-> {}, cuts |-> {}]

\* timeout_s: None, or a number of clock ticks
Timeouts ==
    {[some |-> FALSE, s |-> 0]} \cup {[some |-> TRUE, s |-> k] : k \in 0..MaxWait}

InitAcq ==
    /\ th = [t \in {1} |-> [IdleFrame EXCEPT !.budget = MaxSeqCalls]]
    /\ sess \in {SessLinear, SessLog}
    /\ IdleWire

\* the steps of the caller
CallerAcq ==
    \/ \E t \in Threads, n \in {0, 1, MaxFrames}, tr \in BOOLEAN, ri \in BOOLEAN :
           ArmCall(t, n, tr, ri)
    \/ \E t \in Threads : ArmRet(t)
    \/ \E t \in Threads : TrigRet(t)
    \/ \E t \in Threads, to \in Timeouts : WaitCall(t, to)
    \/ \E t \in Threads : WaitPoll(t)
    \/ \E t \in Threads : SnapshotCall(t, "snapshot_adc", "None")
    \/ \E t \in Threads : SnapArmed(t)
    \/ \E t \in Threads : SnapPoll(t)
    \/ \E t \in Threads : SnapRet(t)
    \/ \E t \in Threads : AskLock(t)
    \/ \E t \in Threads : AskWrite(t)
    \/ \E t \in Threads : AskRead(t)

NextAcq ==
    \/ CallerAcq
    \/ DevReply(AcqProfile)
    \/ DevBusy

SpecAcq == InitAcq /\ [][NextAcq]_vars

\* one caller that only waits for completion
CallerWait ==
    \/ \E t \in Threads, to \in Timeouts : WaitCall(t, to)
    \/ \E t \in Threads : WaitPoll(t)
    \/ \E t \in Threads : AskLock(t)
    \/ \E t \in Threads : AskWrite(t)
    \/ \E t \in Threads : AskRead(t)

NextWait ==
    \/ CallerWait
    \/ DevReply(AcqProfile)
    \/ DevBusy

\* the caller's thread keeps running: every blocking step of the driver
\* (the lock with one caller, the serial read with its timeout) ends
SpecWait == InitAcq /\ [][NextWait]_vars /\ WF_vars(CallerWait)

----------------------------------------------------------------------------
(* Claims on arming and polling (SpecAcq, SpecWait) *)

\* C22: arm_acquisition with frames <= 0 raises before any command is
\* written; otherwise the first command it writes is ACQ ARM <frames>, and
\* the only other command it may write is TRIGARM <frames> R (rising) or
\* TRIGARM <frames> F (falling), written second, only with use_trigger set
\* and only after the reply read to ACQ ARM was OK, and then it is written;
\* a reply other than OK to either command raises ArmFailed and nothing
\* more is written.
C22_ArmOrder ==
    [][\A t \in Threads :
          LET f == th[t]
              g == th'[t]
              trig == Cmd("TRIGARM", <<f.frames, Pol(f.trigger_rising)>>)
          IN  (g.op = "arm_acquisition" /\ g # f) =>
                /\ g.frames <= 0 =>
                      g.pc = "idle" /\ g.out = Raised("ValueError") /\ sent' = sent
                /\ sent' # sent =>
                      /\ Len(sent') = Len(sent) + 1
                      /\ IF f.cid = 0
                         THEN sent'[Len(sent')].cmd = Cmd("ACQ ARM", <<f.frames>>)
                         ELSE /\ sent'[Len(sent')].cmd.name = "TRIGARM"
                              /\ sent'[Len(sent')].cmd = trig
                              /\ sent[f.cid].cmd.name = "ACQ ARM"
                              /\ f.use_trigger /\ f.st = "OK"
                /\ (f.pc \in {"arm_ret", "trig_ret"} /\ f.st # "OK") =>
                      g.pc = "idle" /\ g.out = Raised("ArmFailed") /\ sent' = sent
                /\ (f.pc = "arm_ret" /\ f.st = "OK" /\ f.use_trigger) =>
                      g.pc = "ask" /\ g.cmd.name = "TRIGARM" /\ g.cmd = trig
                /\ (f.pc = "arm_ret" /\ f.st = "OK" /\ ~f.use_trigger) =>
                      g.pc = "idle" /\ g.out = Returned(<<>>)
                /\ (f.pc = "trig_ret" /\ f.st = "OK") =>
                      g.pc = "idle" /\ g.out = Returned(<<>>)]_vars

\* C22 witness: arm_acquisition(MaxFrames, use_trigger, falling) has
\* returned after ACQ ARM and TRIGARM <frames> F, its only two commands
C22_Witness ==
    /\ th[1].op = "arm_acquisition" /\ th[1].pc = "idle"
    /\ th[1].out = Returned(<<>>) /\ th[1].calls = 1
    /\ th[1].use_trigger /\ ~th[1].trigger_rising /\ th[1].frames = MaxFrames
    /\ Len(sent) = 2
    /\ sent[1].cmd = Cmd("ACQ ARM", <<MaxFrames>>)
    /\ sent[2].cmd.name = "TRIGARM" /\ sent[2].cmd.args = <<MaxFrames, "F">>

\* C23: wait_for_completion writes only STATE? queries; it returns exactly
\* when a query is answered with state code 4, every other code being "not
\* ready"; on a not-ready answer under a finite timeout_s it raises
\* AcquisitionTimeout if the elapsed time exceeds timeout_s and polls again
\* if not; and every call with a finite timeout_s ends.
C23_WaitTerminates ==
    /\ [][\A t \in Threads :
            LET f == th[t]
                g == th'[t]
                r == ParseInt(f.line.pl)
                ready == f.pc = "wait_poll" /\ f.st = "OK" /\ r.ok /\ r.v = READY_STATE
                notready == f.pc = "wait_poll" /\ f.st = "OK" /\ r.ok /\ r.v # READY_STATE
            IN  (f.op = "wait_for_completion" /\ f.pc # "idle" /\ g # f) =>
                  /\ sent' # sent =>
                        /\ Len(sent') = Len(sent) + 1
                        /\ sent'[Len(sent')].cmd = Cmd("STATE?", <<>>)
                  /\ ready => g.pc = "idle" /\ g.out = Returned(<<>>)
                  /\ (g.pc = "idle" /\ g.out.kind = "return") => ready
                  /\ (notready /\ f.timeout_s.some) =>
                        IF g.elapsed > f.timeout_s.s
                        THEN g.pc = "idle" /\ g.out = Raised("AcquisitionTimeout")
                        ELSE g.pc = "ask" /\ g.cmd = Cmd("STATE?", <<>>)
                  /\ (g.pc = "idle" /\ g.out = Raised("AcquisitionTimeout")) =>
                        notready /\ f.timeout_s.some]_vars
    /\ \A t \in {1} :
          (th[t].op = "wait_for_completion" /\ th[t].timeout_s.some /\ th[t].pc # "idle")
              ~> (th[t].pc = "idle")

\* C23 witness: wait_for_completion(timeout_s = 1 tick) was answered "not
\* ready" twice, at 1 tick and at 2 ticks, and has raised AcquisitionTimeout
C23_Witness ==
    /\ th[1].op = "wait_for_completion" /\ th[1].pc = "idle" /\ th[1].calls = 1
    /\ th[1].out = Raised("AcquisitionTimeout")
    /\ th[1].timeout_s = [some |-> TRUE, s |-> 1] /\ th[1].elapsed = 2
    /\ Len(sent) = 2 /\ sent[2].cmd = Cmd("STATE?", <<>>)
    /\ ParseInt(th[1].line.pl).ok /\ ParseInt(th[1].line.pl).v = 2

\* C24: in both polling operations (the SNAP? poll of snapshot_adc, the
\* STATE? poll of wait_for_completion) a BUSY reply is followed by the same
\* poll again or by the operation's timeout, never by another error.
C24_BusyNotError ==
    [][\A t \in Threads :
          LET f == th[t]
              g == th'[t]
          IN  (f.pc \in {"snap_poll", "wait_poll"} /\ f.line.st = "BUSY" /\ g # f) =>
                \/ g.pc = "ask" /\ g.cmd = f.cmd
                \/ /\ g.pc = "idle"
                   /\ g.out \in {Raised("SnapshotTimeout"), Raised("AcquisitionTimeout")}]_vars

----------------------------------------------------------------------------
(* Claims on the exchanges of the derived bulk conversions (SpecConv) *)

\* C25: transfer_frames_mV, transfer_frames_volts and transfer_frames_W, on
\* either frontend, write one command only, and it is XFER: every command
\* such a call writes is an XFER and is the first command of the call.
C25_OneExchange ==
    [][\A t \in Threads :
          (/\ th[t].op \in {"transfer_frames_mV", "transfer_frames_volts",
                            "transfer_frames_W"}
           /\ th'[t] # th[t]
           /\ sent' # sent) =>
              /\ sent'[Len(sent')].cmd.name = "XFER"
              /\ th[t].cid = 0]_vars

----------------------------------------------------------------------------
(* Sampling frequency and oversampling: set_freq, set_oversampling         *)

\* base of _max_freq_for_os, and the upper limit of set_freq
BASE_FREQ == 100000

\* the range check of _max_freq_for_os (ValueError outside it)
OsValid(os_idx) == os_idx \in 0..7

\* the cap halved from index 1 on
MaxFreqForOsHalving(os_idx) == BASE_FREQ \div Pow2(os_idx)

\* _max_freq_for_os(os_idx) for a valid index
MaxFreqForOs(os_idx) ==
    IF os_idx <= 1 THEN BASE_FREQ ELSE BASE_FREQ \div Pow2(os_idx - 1)

\* the loop of _best_os_for_freq from index os_idx on: best moves up while
\* hz fits the cap, the first index it does not fit ends the loop
RECURSIVE BestScan(_, _, _)
BestScan(hz, os_idx, best) ==
    IF os_idx > 7 THEN best
    ELSE IF hz <= MaxFreqForOs(os_idx) THEN BestScan(hz, os_idx + 1, os_idx)
    ELSE best

\* the range check of _best_os_for_freq (ValueError outside it)
HzValid(hz) == hz > 0 /\ hz <= BASE_FREQ

\* an index that always fits
BestOsZero(hz) == 0

\* _best_os_for_freq(hz) for a valid hz
BestOsForFreq(hz) == BestScan(hz, 0, 0)

\* set_freq(hz)
SetFreqCall(t, hz) ==
    /\ CanCall(t)
    /\ LET f == [Begin(t, "set_freq") EXCEPT !.hz = hz]
       IN  th' = [th EXCEPT ![t] =
                    IF hz <= 0 \/ hz > BASE_FREQ THEN Unwind(f, "OutOfRange")
                    ELSE Ask(f, Cmd("FREQ", <<hz>>), "setfreq_ret")]
    /\ UNCHANGED <<lock, ser_open, rx, devq, sent, lastIO, sess, dev>>

\* the reply to FREQ <hz>; then get_oversampling()
SetFreqRet(t) ==
    /\ th[t].pc = "setfreq_ret"
    /\ th' = [th EXCEPT ![t] =
                IF th[t].st # "OK" THEN Unwind(@, "ProtocolError")
                ELSE Ask(@, Cmd("OS?", <<>>), "setfreq_os")]
    /\ UNCHANGED <<lock, ser_open, rx, devq, sent, lastIO, sess, dev>>

\* the oversampling left as it is whatever the frequency
SetFreqOsNoAdjust(t) ==
    /\ th[t].pc = "setfreq_os"
    /\ LET f == th[t]
           r == ParseInt(f.line.pl)
       IN  th' = [th EXCEPT ![t] =
                    IF f.st # "OK" THEN Unwind(f, "ProtocolError")
                    ELSE IF ~r.ok \/ ~OsValid(r.v) THEN Unwind(f, "ValueError")
                    ELSE Return([f EXCEPT !.cur_os = r.v], <<>>)]
    /\ UNCHANGED <<lock, ser_open, rx, devq, sent, lastIO, sess, dev>>

\* get_oversampling() has answered: the frequency is compared with the cap
\* of the index read, and a lower index is sent when it does not fit
SetFreqOs(t) ==
    /\ th[t].pc = "setfreq_os"
    /\ LET f == th[t]
           r == ParseInt(f.line.pl)
           g == [f EXCEPT !.cur_os = r.v, !.new_os = BestOsForFreq(f.hz)]
       IN  th' = [th EXCEPT ![t] =
                    IF f.st # "OK" THEN Unwind(f, "ProtocolError")
                    ELSE IF ~r.ok \/ ~OsValid(r.v) THEN Unwind(f, "ValueError")
                    ELSE IF f.hz > MaxFreqForOs(r.v)
                    THEN Ask(g, Cmd("OS", <<g.new_os>>), "adjust_ret")
                    ELSE Return([f EXCEPT !.cur_os = r.v], <<>>)]
    /\ UNCHANGED <<lock, ser_open, rx, devq, sent, lastIO, sess, dev>>

\* the reply to the OS <new_os> of an adjustment, in set_freq and in
\* set_oversampling: the warning is given once the device has accepted it
AdjustRet(t) ==
    /\ th[t].pc = "adjust_ret"
    /\ th' = [th EXCEPT ![t] =
                IF th[t].st # "OK" THEN Unwind(@, "ProtocolError")
                ELSE Return([@ EXCEPT !.warned = TRUE], <<>>)]
    /\ UNCHANGED <<lock, ser_open, rx, devq, sent, lastIO, sess, dev>>

\* set_oversampling(os_idx)
SetOsCall(t, os_idx) ==
    /\ CanCall(t)
    /\ LET f == [Begin(t, "set_oversampling") EXCEPT !.os_idx = os_idx]
       IN  th' = [th EXCEPT ![t] =
                    IF ~(0 <= os_idx /\ os_idx <= 7) THEN Unwind(f, "OutOfRange")
                    ELSE Ask(f, Cmd("FREQ?", <<>>), "setos_freq")]
    /\ UNCHANGED <<lock, ser_open, rx, devq, sent, lastIO, sess, dev>>

\* the index asked for sent whatever the frequency
SetOsFreqKeep(t) ==
    /\ th[t].pc = "setos_freq"
    /\ LET f == th[t]
           r == ParseInt(f.line.pl)
       IN  th' = [th EXCEPT ![t] =
                    IF f.st # "OK" THEN Unwind(f, "ProtocolError")
                    ELSE IF ~r.ok THEN Unwind(f, "ValueError")
                    ELSE Ask([f EXCEPT !.hz = r.v], Cmd("OS", <<f.os_idx>>), "setos_ret")]
    /\ UNCHANGED <<lock, ser_open, rx, devq, sent, lastIO, sess, dev>>

\* get_freq_hz() has answered: the index asked for is sent when the
\* frequency fits its cap, the best index for the frequency when not
SetOsFreq(t) ==
    /\ th[t].pc = "setos_freq"
    /\ LET f == th[t]
           r == ParseInt(f.line.pl)
           g == [f EXCEPT !.hz = r.v]
       IN  th' = [th EXCEPT ![t] =
                    IF f.st # "OK" THEN Unwind(f, "ProtocolError")
                    ELSE IF ~r.ok THEN Unwind(f, "ValueError")
                    ELSE IF r.v > MaxFreqForOs(f.os_idx)
                    THEN IF ~HzValid(r.v) THEN Unwind(g, "ValueError")
                         ELSE Ask([g EXCEPT !.new_os = BestOsForFreq(r.v)],
                                  Cmd("OS", <<BestOsForFreq(r.v)>>), "adjust_ret")
                    ELSE Ask(g, Cmd("OS", <<f.os_idx>>), "setos_ret")]
    /\ UNCHANGED <<lock, ser_open, rx, devq, sent, lastIO, sess, dev>>

\* the reply to OS <os_idx>
SetOsRet(t) ==
    /\ th[t].pc = "setos_ret"
    /\ th' = [th EXCEPT ![t] =
                IF th[t].st # "OK" THEN Unwind(@, "ProtocolError")
                ELSE Return(@, <<>>)]
    /\ UNCHANGED <<lock, ser_open, rx, devq, sent, lastIO, sess, dev>>

\* the device's state with sampling frequency f and oversampling index o
DevRate(f, o) ==
    [head |-> <<>>, busy |-> 0, payload |-> <<>>, xfer |-> 0, freq |-> f, os |-> o]

\* the device answers the oldest command: it accepts FREQ <hz> or OS <k>
\* and applies it, or refuses and leaves its setting; it reports its
\* setting to FREQ? or OS?, or refuses, or answers without a number
DevRateReply ==
    /\ devq # <<>>
    /\ LET c == Head(devq).cmd
           of == Head(devq).id
       IN  \/ /\ c.name \in {"FREQ", "OS"}
              /\ rx' = Append(rx, Line("OK", <<>>, of))
              /\ dev' = IF c.name = "FREQ" THEN [dev EXCEPT !.freq = c.args[1]]
                        ELSE [dev EXCEPT !.os = c.args[1]]
           \/ /\ c.name \in {"FREQ?", "OS?"}
              /\ rx' = Append(rx, Line("OK", <<I(IF c.name = "FREQ?" THEN dev.freq
                                                ELSE dev.os)>>, of))
              /\ UNCHANGED dev
           \/ /\ c.name \in {"FREQ?", "OS?"}
              /\ rx' = Append(rx, Line("OK", <<W("?")>>, of))
              /\ UNCHANGED dev
           \/ /\ rx' = Append(rx, Line("ERR", <<>>, of))
              /\ UNCHANGED dev
    /\ devq' = Tail(devq)
    /\ UNCHANGED <<th, lock, ser_open, sent, lastIO, sess>>

----------------------------------------------------------------------------
(* One caller setting frequency and oversampling on a constructed session *)

\* the settings the device starts with, <<freq, os>>, each within its cap
RateStarts == {<<3125, 6>>, <<10000, 4>>, <<100000, 0>>, <<1, 7>>}

\* the arguments the caller passes
FreqArgs == {0, 1, 3126, 10000, 100000, 100001}
OsArgs == {-1, 0, 1, 6, 7, 8}

InitRate ==
    /\ th = [t \in {1} |-> [IdleFrame EXCEPT !.budget = MaxSeqCalls]]
    /\ sess = SessLinear
    /\ lock = NoThread
    /\ ser_open = TRUE
    /\ rx = <<>>
    /\ devq = <<>>
    /\ sent = <<>>
    /\ lastIO = [by |-> NoThread, kind |-> "none", tick |-> 0]
    /\ dev \in {DevRate(s[1], s[2]) : s \in RateStarts}

NextRate ==
    \/ \E t \in Threads, hz \in FreqArgs : SetFreqCall(t, hz)
    \/ \E t \in Threads : SetFreqRet(t)
    \/ \E t \in Threads : SetFreqOs(t)
    \/ \E t \in Threads : AdjustRet(t)
    \/ \E t \in Threads, k \in OsArgs : SetOsCall(t, k)
    \/ \E t \in Threads : SetOsFreq(t)
    \/ \E t \in Threads : SetOsRet(t)
    \/ \E t \in Threads : AskLock(t)
    \/ \E t \in Threads : AskWrite(t)
    \/ \E t \in Threads : AskRead(t)
    \/ DevRateReply

SpecRate == InitRate /\ [][NextRate]_vars

----------------------------------------------------------------------------
(* Claims on frequency and oversampling (SpecRate) *)

\* the caps of the oversampling indices 0..7, as a table
CapTable == <<100000, 100000, 50000, 25000, 12500, 6250, 3125, 1562>>
Cap(k) == CapTable[k + 1]

\* the highest index whose cap admits hz
HighestOs(hz) ==
    CHOOSE k \in 0..7 : Cap(k) >= hz /\ \A j \in 0..7 : Cap(j) >= hz => j <= k

\* 1, and every cap with the frequency just above it, up to the limit
CapEdges ==
    {hz \in {1} \cup {Cap(k) : k \in 0..7} \cup {Cap(k) + 1 : k \in 0..7} :
        hz <= 100000}

\* the last command written, after a step that wrote one
Wrote == sent'[Len(sent')].cmd

\* C26: set_freq(hz) with hz outside 1..100000 raises before any command is
\* written; with hz in 1..100000 it writes FREQ hz first; once it has read
\* the device's oversampling index, it writes OS k, k the highest index in
\* 0..7 with cap(k) >= hz, when hz exceeds the cap of the index read, and
\* returns with a warning when that is accepted; when hz is within the cap
\* it returns without an OS command and without a warning.  The index the
\* driver computes is that k at 1 and at every cap and the frequency above it.
C26_SetFreq ==
    [][\A t \in Threads :
         LET f == th[t]
             g == th'[t]
             r == ParseInt(f.line.pl)
         IN  (g.op = "set_freq" /\ g # f) =>
               /\ (f.pc = "idle" /\ g.hz \notin 1..100000) =>
                     g.pc = "idle" /\ g.out.kind = "raise"
               /\ (f.pc = "idle" /\ g.hz \in 1..100000) =>
                     g.pc = "ask" /\ g.cmd = Cmd("FREQ", <<g.hz>>)
               /\ sent' # sent =>
                     /\ Len(sent') = Len(sent) + 1
                     /\ f.hz \in 1..100000
                     /\ Wrote.name \in {"FREQ", "OS?", "OS"}
                     /\ (f.cid = 0) = (Wrote.name = "FREQ")
                     /\ Wrote.name = "FREQ" => Wrote.args = <<f.hz>>
                     /\ Wrote.name = "OS" =>
                           /\ f.hz > Cap(f.cur_os)
                           /\ Wrote.args = <<HighestOs(f.hz)>>
               /\ (f.pc = "setfreq_os" /\ f.st = "OK" /\ r.ok /\ r.v \in 0..7) =>
                     IF f.hz > Cap(r.v)
                     THEN g.pc = "ask" /\ g.cmd = Cmd("OS", <<HighestOs(f.hz)>>)
                     ELSE g.pc = "idle" /\ g.out = Returned(<<>>) /\ ~g.warned
               /\ (f.pc = "adjust_ret" /\ f.st = "OK") =>
                     g.pc = "idle" /\ g.out = Returned(<<>>) /\ g.warned
               /\ g.warned => f.pc = "adjust_ret" /\ f.st = "OK"
               /\ f.pc = "setfreq_os" =>
                     \A hz \in CapEdges : BestOsForFreq(hz) = HighestOs(hz)]_vars

\* C26 witness: set_freq(100000) found the device at index 6, wrote FREQ
\* 100000, OS? and OS 1, and has returned with the warning
C26_Witness ==
    /\ th[1].op = "set_freq" /\ th[1].pc = "idle" /\ th[1].calls = 1
    /\ th[1].out = Returned(<<>>) /\ th[1].warned
    /\ th[1].hz = 100000 /\ th[1].cur_os = 6
    /\ Len(sent) = 3
    /\ sent[1].cmd = Cmd("FREQ", <<100000>>)
    /\ sent[2].cmd = Cmd("OS?", <<>>)
    /\ sent[3].cmd = Cmd("OS", <<1>>)
    /\ dev.freq = 100000 /\ dev.os = 1

\* a set_freq(10000) that found the device at index 6 has returned, and no
\* reply was ever missed (the wire is quiet: every command was answered and
\* every answer read, so each reply read answered the command before it)
Scenario10k ==
    /\ th[1].op = "set_freq" /\ th[1].pc = "idle" /\ th[1].out.kind = "return"
    /\ th[1].hz = 10000 /\ th[1].cur_os = 6
    /\ rx = <<>> /\ devq = <<>>

\* C27 as stated: set_freq(10000) issued at oversampling index 6 sets the
\* index to 1, with a warning.
C27_ScenarioIndex1 ==
    Scenario10k =>
        /\ th[1].warned
        /\ sent[Len(sent)].cmd = Cmd("OS", <<1>>)
        /\ dev.os = 1

\* C27: set_freq(10000) issued at oversampling index 6 (cap 3125 Hz) sets
\* the index to 4, the highest index whose cap (12500 Hz) is >= 10000 Hz,
\* with a warning, and the frequency to 10000.
C27_ScenarioIndex4 ==
    Scenario10k =>
        /\ th[1].warned
        /\ th[1].new_os = 4
        /\ sent[Len(sent)].cmd = Cmd("OS", <<4>>)
        /\ dev.os = 4 /\ dev.freq = 10000
        /\ Cap(4) >= 10000 /\ \A k \in 5..7 : Cap(k) < 10000

\* C27 witness: the scenario as the first call on a device at 3125 Hz and
\* index 6: FREQ 10000, OS?, OS 4 written and accepted
C27_Witness ==
    /\ Scenario10k /\ th[1].calls = 1 /\ th[1].warned
    /\ Len(sent) = 3 /\ sent[3].cmd = Cmd("OS", <<4>>)
    /\ dev = DevRate(10000, 4)

\* C28: set_oversampling(k) with k outside 0..7 raises before any command
\* is written; with k in 0..7 it writes FREQ? first and then one OS command
\* and nothing else, never a FREQ command: OS k, and a return without a
\* warning, when the frequency read is within cap(k); an OS command whose
\* index has a cap >= the frequency read, and a return with a warning, when
\* the frequency read exceeds cap(k).
C28_SetOversampling ==
    [][\A t \in Threads :
         LET f == th[t]
             g == th'[t]
             r == ParseInt(f.line.pl)
         IN  (g.op = "set_oversampling" /\ g # f) =>
               /\ (f.pc = "idle" /\ g.os_idx \notin 0..7) =>
                     g.pc = "idle" /\ g.out.kind = "raise"
               /\ (f.pc = "idle" /\ g.os_idx \in 0..7) =>
                     g.pc = "ask" /\ g.cmd = Cmd("FREQ?", <<>>)
               /\ sent' # sent =>
                     /\ Len(sent') = Len(sent) + 1
                     /\ f.os_idx \in 0..7
                     /\ IF f.cid = 0 THEN Wrote = Cmd("FREQ?", <<>>)
                        ELSE /\ Wrote.name = "OS"
                             /\ f.cid = Len(sent)
                             /\ sent[f.cid].cmd.name = "FREQ?"
               /\ (f.pc = "setos_freq" /\ f.st = "OK" /\ r.ok /\ r.v \in 0..100000) =>
                     /\ g.pc = "ask" /\ g.cmd.name = "OS"
                     /\ g.cmd.args[1] \in 0..7 /\ Cap(g.cmd.args[1]) >= r.v
                     /\ IF r.v > Cap(f.os_idx)
                        THEN g.cmd.args = <<HighestOs(r.v)>> /\ g.ret = "adjust_ret"
                        ELSE g.cmd.args = <<f.os_idx>> /\ g.ret = "setos_ret"
               /\ (f.pc = "adjust_ret" /\ f.st = "OK") =>
                     g.pc = "idle" /\ g.out = Returned(<<>>) /\ g.warned
               /\ (f.pc = "setos_ret" /\ f.st = "OK") =>
                     g.pc = "idle" /\ g.out = Returned(<<>>) /\ ~g.warned
               /\ (g.pc = "idle" /\ g.out.kind = "return") =>
                     f.pc \in {"adjust_ret", "setos_ret"} /\ f.st = "OK"]_vars

\* C28 witness: set_oversampling(7) on a device at 3125 Hz (cap(7) is 1562
\* Hz) wrote FREQ? and OS 6, and has returned with the warning
C28_Witness ==
    /\ th[1].op = "set_oversampling" /\ th[1].pc = "idle" /\ th[1].calls = 1
    /\ th[1].out = Returned(<<>>) /\ th[1].warned
    /\ th[1].os_idx = 7 /\ th[1].hz = 3125
    /\ Len(sent) = 2
    /\ sent[1].cmd = Cmd("FREQ?", <<>>)
    /\ sent[2].cmd = Cmd("OS", <<6>>)
    /\ dev = DevRate(3125, 6)

\* C29: the device starts with freq <= cap(os); whenever the caller's last
\* set_freq or set_oversampling call has returned normally and no reply was
\* ever missed (the wire is quiet, as it is after calls that all returned
\* normally), the device's settings satisfy freq <= cap(os).
C29_Compatible ==
    (/\ th[1].pc = "idle"
     /\ th[1].calls = 0 \/ th[1].out.kind = "return"
     /\ rx = <<>> /\ devq = <<>>) =>
        /\ dev.os \in 0..7
        /\ dev.freq <= Cap(dev.os)

\* C29 witness: on a device at 10000 Hz and index 4, set_oversampling(1)
\* and then set_freq(100000), which read index 1, have both returned
C29_Witness ==
    /\ th[1].op = "set_freq" /\ th[1].pc = "idle" /\ th[1].calls = 2
    /\ th[1].out = Returned(<<>>) /\ ~th[1].warned
    /\ th[1].hz = 100000 /\ th[1].cur_os = 1
    /\ rx = <<>> /\ devq = <<>>
    /\ Len(sent) = 4
    /\ sent[1].cmd = Cmd("FREQ?", <<>>) /\ sent[2].cmd = Cmd("OS", <<1>>)
    /\ dev = DevRate(100000, 1)

----------------------------------------------------------------------------
(* The Linear conversion over the samples of one bulk transfer *)

\* a Linear session whose device reported negative slopes for the cells of
\* channel 1, gain 0 (-10 mV/W) and channel 2, gain 3 (-0.5 mV/W)
SessLinearNeg ==
    [SessLinear EXCEPT !.cal_slope[1][0] = QInt(-10), !.cal_slope[2][3] = Q(-1, 2)]

MonoSessions ==
    {SessLinear, SetSoftZero(SessLinear, <<-3, 5, 0, 100>>), SessLinearNeg}

\* payloads whose samples rise, fall and stay from frame to frame
MonoProfile ==
    [sts |-> {"OK", "ERR"},
     pats |-> {<<15, 98>>, <<241, 130>>, <<1, 255>>, <<37, 200>>, <<0, 7>>},
     shorts |-> {0}, cuts |-> {0},
     snaps |-> {},
     gainsq |-> {GainsPl(<<0, 3, 7, 1>>), GainsPl(<<7, 0, 2, 5>>)}]

InitMono ==
    /\ th = [t \in {1} |-> [IdleFrame EXCEPT !.budget = 1]]
    /\ sess \in MonoSessions
    /\ IdleWire

NextMono ==
    \/ \E t \in Threads : TransferCall(t, "transfer_frames_W", MaxFrames, "None", NoneQ)
    \/ \E t \in Threads : XferLock(t)
    \/ \E t \in Threads : XferReset(t)
    \/ \E t \in Threads : XferWrite(t)
    \/ \E t \in Threads : XferLine(t)
    \/ \E t \in Threads : XferData(t)
    \/ \E t \in Threads : XferDecode(t)
    \/ \E t \in Threads : XferGains(t)
    \/ \E t \in Threads : AskLock(t)
    \/ \E t \in Threads : AskWrite(t)
    \/ \E t \in Threads : AskRead(t)
    \/ DevReply(MonoProfile)

SpecMono == InitMono /\ [][NextMono]_vars

\* C30: in the watts transfer_frames_W returns on a Linear session, for
\* every channel (its cell being the one of the gain reported, slope # 0,
\* positive or negative) and every two samples of the channel, the sample
\* with the lower or equal raw code has the lower or equal power.
C30_Monotonic ==
    \A t \in Threads :
        HasReturned(t, "transfer_frames_W") =>
            \A h \in 1..NUM_HEADS : \A i, j \in 1..th[t].frames :
                RawAt(h, i) <= RawAt(h, j) =>
                    QLe(th[t].out.val[h][i].v, th[t].out.val[h][j].v)

\* the same for the cells whose slope is positive
MonoPositive ==
    \A t \in Threads :
        HasReturned(t, "transfer_frames_W") =>
            \A h \in 1..NUM_HEADS : \A i, j \in 1..th[t].frames :
                (/\ RawAt(h, i) <= RawAt(h, j)
                 /\ QLt(QZero, sess.cal_slope[h][th[t].gains[h]])) =>
                    QLe(th[t].out.val[h][i].v, th[t].out.val[h][j].v)

----------------------------------------------------------------------------
(* The Linear conversions of snapshot_W and transfer_frames_W over the     *)
(* gains the device reports                                                *)

\* SNAP? replies: gains in range, a negative gain, a gain above 7, and a
\* reply without the G= field
PowSnaps ==
    {SnapPl(<<100, 200, -50, 900>>, <<0, 3, 7, 1>>),
     SnapPl(<<100, 200, -50, 900>>, <<-1, 3, 7, 1>>),
     SnapPl(<<100, 200, -50, 900>>, <<0, 8, 7, 1>>),
     <<I(100), I(200), I(-50), I(900)>>}

PowProfile ==
    [sts |-> {"OK", "ERR"},
     pats |-> {<<15, 98>>, <<241, 130>>, <<0, 7>>},
     shorts |-> {0}, cuts |-> {0},
     snaps |-> PowSnaps,
     gainsq |-> {GainsPl(<<0, 3, 7, 1>>), GainsPl(<<-1, 3, 7, 1>>),
                 GainsPl(<<0, 3, 8, 1>>)}]

InitPow ==
    /\ th = [t \in {1} |-> [IdleFrame EXCEPT !.budget = 1]]
    /\ sess \in MonoSessions
    /\ IdleWire

NextPow ==
    \/ \E t \in Threads : TransferCall(t, "transfer_frames_W", MaxFrames, "None", NoneQ)
    \/ \E t \in Threads :
          SnapshotWCall(t, "None", FALSE, QInt(100), QInt(4700), 10, NoneQ)
    \/ \E t \in Threads : SnapArmed(t)
    \/ \E t \in Threads : SnapPoll(t)
    \/ \E t \in Threads : SnapRet(t)
    \/ \E t \in Threads : XferLock(t)
    \/ \E t \in Threads : XferReset(t)
    \/ \E t \in Threads : XferWrite(t)
    \/ \E t \in Threads : XferLine(t)
    \/ \E t \in Threads : XferData(t)
    \/ \E t \in Threads : XferDecode(t)
    \/ \E t \in Threads : XferGains(t)
    \/ \E t \in Threads : AskLock(t)
    \/ \E t \in Threads : AskWrite(t)
    \/ \E t \in Threads : AskRead(t)
    \/ DevReply(PowProfile)
    \/ DevBusy

SpecPow == InitPow /\ [][NextPow]_vars

\* the power the conversion computes for a reading before the test p_w < 0
RawPower(s, h, g, mv) == QDiv(QSub(mv, s.cal_intercept[h][g]), s.cal_slope[h][g])

\* C31: every power value snapshot_W or transfer_frames_W returns on a
\* Linear session is >= 0, whatever the raw code, the active zero, the
\* intercept and the sign of the (non-zero) slope.
C31_NonNegative ==
    \A t \in Threads :
        /\ HasReturned(t, "snapshot_W") =>
              \A h \in 1..NUM_HEADS : QLe(QZero, th[t].out.val.w[h].v)
        /\ HasReturned(t, "transfer_frames_W") =>
              \A h \in 1..NUM_HEADS : \A i \in 1..th[t].frames :
                  QLe(QZero, th[t].out.val[h][i].v)

\* C31 witness: snapshot_W returned 0 W for channel 1, whose cell (gain 0)
\* has the slope -10 mV/W and whose reading gives a negative power
C31_Witness ==
    /\ HasReturned(1, "snapshot_W")
    /\ sess = SessLinearNeg
    /\ th[1].gains[1] = 0
    /\ QLt(RawPower(sess, 1, 0, th[1].out.val.mv[1]), QZero)
    /\ th[1].out.val.w[1].v = QZero

\* the reply line carries a G= field
HasGainField(pl) == \E i \in 1..Len(pl) : pl[i].t = "kv" /\ pl[i].k = "G"

\* C40: snapshot_W and transfer_frames_W return watts on a Linear session
\* only when every reported gain is in 0..7 (and, for SNAP?, the reply
\* carries the gain field); any other reply ends the call in a driver error,
\* never in the IndexError of a list.
C40_GainInRange ==
    \A t \in Threads :
        /\ HasReturned(t, "snapshot_W") =>
              /\ HasGainField(th[t].line.pl)
              /\ \A h \in 1..NUM_HEADS : th[t].gains[h] \in 0..(NUM_GAINS - 1)
        /\ HasReturned(t, "transfer_frames_W") =>
              \A h \in 1..NUM_HEADS : th[t].gains[h] \in 0..(NUM_GAINS - 1)
        /\ (/\ th[t].op \in {"snapshot_W", "transfer_frames_W"}
            /\ th[t].pc = "idle" /\ th[t].out.kind = "raise") =>
              th[t].out.err # "IndexError"

----------------------------------------------------------------------------
(* A conversion in thread 1 while thread 2 changes the active zero         *)

\* snapshot_mV whose subtraction of the active zero is followed one channel
\* at a time: the snapshot is taken first
SnapshotMvCall(t) ==
    /\ CanCall(t)
    /\ th' = [th EXCEPT ![t] = Snap(Begin(t, "snapshot_mV"), "zero_ch")]
    /\ UNCHANGED <<lock, ser_open, rx, devq, sent, lastIO, sess, dev>>

\* _apply_linear_zero_ch: one turn of [int(codes[i]) -
\* int(self._linear_zero_adc[i]) for i in range(4)]; the attribute is read
\* anew in every turn and no lock is held. After the fourth turn the
\* millivolts are rounded and returned.
ApplyZeroCh(t) ==
    /\ th[t].pc = "zero_ch"
    /\ LET f == th[t]
           i == Len(f.z) + 1
           z == Append(f.z, sess.linear_zero_adc[i])
       IN  th' = [th EXCEPT ![t] =
                    IF i < NUM_HEADS THEN [@ EXCEPT !.z = z]
                    ELSE Return([@ EXCEPT !.z = z],
                                [mv |-> [h \in 1..NUM_HEADS |->
                                           QRound(CodeToMv(f.codes[h] - z[h]), 3)],
                                 gains |-> f.gains])]
    /\ UNCHANGED <<lock, ser_open, rx, devq, sent, lastIO, sess, dev>>

RaceProfile ==
    [sts |-> {"OK", "ERR"},
     snaps |-> {SnapPl(<<3, 0, -328, 1966>>, <<2, 2, 0, 5>>)},
     zerosq |-> {}, gainsq |-> {}, pats |-> {}, shorts |-> {}, cuts |-> {}]

InitRace ==
    /\ th = [t \in {1, 2} |-> [IdleFrame EXCEPT !.budget = 1]]
    /\ sess = SessLinear
    /\ IdleWire

NextRace ==
    \/ SnapshotMvCall(1)
    \/ \E z \in SoftZeroArgs : SetSoftZeroCall(2, z)
    \/ \E t \in Threads : ApplyZeroCh(t)
    \/ \E t \in Threads : SnapArmed(t)
    \/ \E t \in Threads : SnapPoll(t)
    \/ \E t \in Threads : AskLock(t)
    \/ \E t \in Threads : AskWrite(t)
    \/ \E t \in Threads : AskRead(t)
    \/ DevReply(RaceProfile)
    \/ DevBusy

SpecRace == InitRace /\ [][NextRace]_vars

\* C32: the four zero offsets one snapshot_mV subtracted are the active
\* zero vector as it was before the other thread's set_soft_zero_adc, or
\* the vector as it is after it, never a mix of the two.
C32_OneZeroVector ==
    HasReturned(1, "snapshot_mV") =>
        th[1].z \in {SessLinear.linear_zero_adc, sess.linear_zero_adc}

----------------------------------------------------------------------------
(* Replies that arrive after their exchange has timed out *)

\* C33: the reply line an exchange hands back (to idn, or as the status
\* line of a bulk transfer) is the device's reply to the command that
\* exchange wrote, also after an earlier exchange ended in a device timeout.
C33_OwnReply ==
    \A t \in Threads :
        (th[t].pc \in {"simple_ret", "xfer_data"} /\ th[t].line.k = "line") =>
            th[t].line.of = th[t].cid

----------------------------------------------------------------------------
(* set_freq that raises, and set_freq beside set_oversampling *)

\* C36: when the first call on a session, a set_freq, has raised and the
\* wire is quiet, the device has the frequency and the oversampling index
\* it started with, and they are compatible.
C36_FailedSetFreq ==
    (/\ th[1].op = "set_freq" /\ th[1].pc = "idle" /\ th[1].calls = 1
     /\ th[1].out.kind = "raise"
     /\ rx = <<>> /\ devq = <<>>) =>
        /\ dev \in {DevRate(s[1], s[2]) : s \in RateStarts}
        /\ dev.freq <= Cap(dev.os)

\* thread 1 calls set_freq while thread 2 calls set_oversampling
InitRatePair ==
    /\ th = [t \in {1, 2} |-> [IdleFrame EXCEPT !.budget = 1]]
    /\ sess = SessLinear
    /\ lock = NoThread
    /\ ser_open = TRUE
    /\ rx = <<>>
    /\ devq = <<>>
    /\ sent = <<>>
    /\ lastIO = [by |-> NoThread, kind |-> "none", tick |-> 0]
    /\ dev \in {DevRate(s[1], s[2]) : s \in RateStarts}

NextRatePair ==
    \/ \E hz \in {3126, 100000} : SetFreqCall(1, hz)
    \/ \E k \in {1, 6} : SetOsCall(2, k)
    \/ \E t \in Threads : SetFreqRet(t)
    \/ \E t \in Threads : SetFreqOs(t)
    \/ \E t \in Threads : AdjustRet(t)
    \/ \E t \in Threads : SetOsFreq(t)
    \/ \E t \in Threads : SetOsRet(t)
    \/ \E t \in Threads : AskLock(t)
    \/ \E t \in Threads : AskWrite(t)
    \/ \E t \in Threads : AskRead(t)
    \/ DevRateReply

SpecRatePair == InitRatePair /\ [][NextRatePair]_vars

\* C35: from a compatible device state, once a set_freq in thread 1 and a
\* set_oversampling in thread 2 have both returned normally (in whatever
\* interleaving) and the wire is quiet, the device's frequency is at most
\* the cap of its oversampling index.
C35_PairCompatible ==
    (/\ HasReturned(1, "set_freq") /\ HasReturned(2, "set_oversampling")
     /\ rx = <<>> /\ devq = <<>>) =>
        dev.freq <= Cap(dev.os)

----------------------------------------------------------------------------
(* Two threads taking a snapshot of one session *)

\* a device whose snapshot engine was last armed by command number a
\* (0: never armed)
DevSnap(a) == [head |-> <<>>, busy |-> 0, payload |-> <<>>, xfer |-> 0, armed |-> a]

\* the device's side of SNAP <n> and SNAP?: SNAP arms the one snapshot
\* engine anew; SNAP? answers BUSY (through DevBusy) or reports the snapshot
\* of the latest SNAP, whose first code here is the number of that command
DevSnapReply ==
    /\ devq # <<>>
    /\ LET c == Head(devq).cmd
           of == Head(devq).id
       IN  \/ /\ c.name = "SNAP"
              /\ rx' = Append(rx, Line("OK", <<>>, of))
              /\ dev' = [dev EXCEPT !.armed = of]
           \/ /\ c.name = "SNAP?"
              /\ rx' = Append(rx, Line("OK", SnapPl(<<dev.armed, 0, -328, 1966>>,
                                                    <<2, 2, 0, 5>>), of))
              /\ UNCHANGED dev
           \/ /\ rx' = Append(rx, Line("ERR", <<>>, of))
              /\ UNCHANGED dev
    /\ devq' = Tail(devq)
    /\ UNCHANGED <<th, lock, ser_open, sent, lastIO, sess>>

InitSnapPair ==
    /\ th = [t \in {1, 2} |-> [IdleFrame EXCEPT !.budget = 1]]
    /\ sess = SessLinear
    /\ lock = NoThread
    /\ ser_open = TRUE
    /\ rx = <<>>
    /\ devq = <<>>
    /\ sent = <<>>
    /\ lastIO = [by |-> NoThread, kind |-> "none", tick |-> 0]
    /\ dev = DevSnap(0)

NextSnapPair ==
    \/ \E t \in Threads : SnapshotCall(t, "snapshot_adc", "None")
    \/ \E t \in Threads : SnapArmed(t)
    \/ \E t \in Threads : SnapPoll(t)
    \/ \E t \in Threads : SnapRet(t)
    \/ \E t \in Threads : AskLock(t)
    \/ \E t \in Threads : AskWrite(t)
    \/ \E t \in Threads : AskRead(t)
    \/ DevSnapReply
    \/ DevBusy

SpecSnapPair == InitSnapPair /\ [][NextSnapPair]_vars

\* the number of the SNAP command thread t wrote
OwnSnap(t) ==
    CHOOSE i \in 1..Len(sent) : sent[i].by = t /\ sent[i].cmd.name = "SNAP"

\* C34: the codes a snapshot_adc returns, with another thread's snapshot_adc
\* running beside it, are those of the snapshot its own SNAP command armed.
C34_OwnSnapshot ==
    \A t \in Threads :
        HasReturned(t, "snapshot_adc") => th[t].out.val.codes[1] = OwnSnap(t)

----------------------------------------------------------------------------
(* Zero loads and soft zeros that fail, and the snapshot after a soft zero *)

\* FACTORY_ZEROS? payloads: two good ones, then too short, keyed with h4
\* missing, keyed with a value that is no integer, plain with a word
ZeroFailProfile ==
    [sts |-> {"OK", "ERR"},
     zerosq |-> {<<I(836), I(835), I(-2), I(0)>>,
                 <<KV("h1", 1), KV("h2", 2), KV("h3", 3), KV("h4", 4)>>,
                 <<I(836), I(835), I(834)>>,
                 <<KV("h1", 1), KV("h2", 2), KV("h3", 3), I(4)>>,
                 <<KV("h1", 1), KV("h2", 2), KV("h3", 3), KVW("h4")>>,
                 <<I(1), I(2), I(3), W("x")>>},
     snaps |-> {SnapPl(<<3, 0, -328, 1966>>, <<2, 2, 0, 5>>),
                SnapPl(<<3, 1, 7, 1966>>, <<2, 2, 0, 5>>),
                <<I(3), I(0)>>},
     gainsq |-> {}, pats |-> {}, shorts |-> {}, cuts |-> {}]

InitZeroFail ==
    /\ th = [t \in {1} |-> [IdleFrame EXCEPT !.budget = MaxSeqCalls]]
    /\ sess \in {SessLinear, SetSoftZero(SessLinear, <<-3, 5, 0, 100>>)}
    /\ IdleWire

NextZeroFail ==
    \/ \E t \in Threads : RefreshZerosCall(t)
    \/ \E t \in Threads : LoadZerosRet(t)
    \/ \E t \in Threads : SoftZeroSnapCall(t, 32)
    \/ \E t \in Threads : SoftZeroRet(t)
    \/ \E t \in Threads : SnapshotCall(t, "snapshot_mV", "None")
    \/ \E t \in Threads : SnapRet(t)
    \/ \E t \in Threads : SnapArmed(t)
    \/ \E t \in Threads : SnapPoll(t)
    \/ \E t \in Threads : AskLock(t)
    \/ \E t \in Threads : AskWrite(t)
    \/ \E t \in Threads : AskRead(t)
    \/ DevReply(ZeroFailProfile)
    \/ DevBusy

SpecZeroFail == InitZeroFail /\ [][NextZeroFail]_vars

\* a FACTORY_ZEROS? payload the load must refuse: fewer than 4 tokens; in
\* keyed form (some token has an "=") a key of h1..h4 without a token or
\* with a value that is no integer; in plain form a token of the first four
\* that is no integer
ZerosBad(pl) ==
    LET keyed == \E i \in 1..Len(pl) : pl[i].t \in {"kv", "kvw", "hex"}
        good(k) == \E i \in 1..Len(pl) : pl[i].t = "kv" /\ LowerKey(pl[i].k) = k
        bad(k) == \E i \in 1..Len(pl) : pl[i].t \in {"kvw", "hex"} /\ LowerKey(pl[i].k) = k
    IN  \/ Len(pl) < 4
        \/ keyed /\ \E k \in {"h1", "h2", "h3", "h4"} : ~good(k) \/ bad(k)
        \/ ~keyed /\ \E i \in 1..4 : pl[i].t # "int"

\* C38: a refresh_factory_zeros whose FACTORY_ZEROS? reply is not OK or
\* carries a bad payload raises and changes neither zero vector; a step of
\* refresh_factory_zeros or soft_zero_from_snapshot changes a zero vector
\* only when the operation returns normally, so a soft_zero_from_snapshot
\* whose snapshot fails leaves the active zero as it was.
C38_FailedLoadKeeps ==
    [][\A t \in Threads :
         LET f == th[t]
             g == th'[t]
         IN  (g # f /\ g.op \in {"refresh_factory_zeros", "soft_zero_from_snapshot"}) =>
               /\ (f.pc = "zeros_ret" /\ (f.st # "OK" \/ ZerosBad(f.line.pl))) =>
                     /\ g.pc = "idle" /\ g.out.kind = "raise"
                     /\ sess' = sess
               /\ (g.pc = "idle" /\ g.out.kind = "raise") =>
                     /\ sess'.factory_zero_adc = sess.factory_zero_adc
                     /\ sess'.linear_zero_adc = sess.linear_zero_adc
               /\ sess' # sess => g.pc = "idle" /\ g.out.kind = "return"]_vars

\* C38 witness: after a soft zero, a refresh_factory_zeros whose reply lacks
\* h4= has raised, and the active zero is still that of the soft zero
C38_Witness ==
    /\ th[1].op = "refresh_factory_zeros" /\ th[1].pc = "idle"
    /\ th[1].out.kind = "raise"
    /\ th[1].line.st = "OK"
    /\ th[1].line.pl = <<KV("h1", 1), KV("h2", 2), KV("h3", 3), I(4)>>
    /\ sess.linear_zero_adc = <<-3, 5, 0, 100>>
    /\ sess.factory_zero_adc = FactoryZerosA

\* C39: soft_zero_from_snapshot returns the raw codes of its SNAP? reply
\* and makes them the active zero, whatever the active zero was before (so
\* doing it again with the same raw codes gives the same active zero), and
\* leaves the factory zero alone; a snapshot_mV whose raw codes are the
\* active zero reads 0 mV on all four channels.
C39_SoftZeroFromSnapshot ==
    /\ [](\A t \in Threads :
            (HasReturned(t, "snapshot_mV") /\ th[t].codes = sess.linear_zero_adc) =>
                \A h \in 1..NUM_HEADS : th[t].out.val.mv[h] = QZero)
    /\ [][\A t \in Threads :
            LET f == th[t]
                g == th'[t]
            IN  (g # f /\ f.pc = "softzero_ret") =>
                  /\ g.pc = "idle" /\ g.out.kind = "return"
                  /\ g.out.val.codes = SnapParse(f.line.pl).codes
                  /\ sess'.linear_zero_adc = g.out.val.codes
                  /\ sess'.factory_zero_adc = sess.factory_zero_adc
                  /\ \A h \in 1..NUM_HEADS :
                        SnapshotMv(sess', g.out.val.codes, "None")[h] = QZero]_vars

\* C39 witness: after a soft zero from the codes 3, 0, -328, 1966 on a
\* session whose factory zero is another vector, the second call, a
\* snapshot_mV with the same raw codes, has returned
C39_Witness ==
    /\ HasReturned(1, "snapshot_mV") /\ th[1].calls = 2
    /\ th[1].codes = <<3, 0, -328, 1966>>
    /\ sess.linear_zero_adc = <<3, 0, -328, 1966>>
    /\ sess.factory_zero_adc = FactoryZerosA
    /\ th[1].out.val.mv = <<QZero, QZero, QZero, QZero>>

----------------------------------------------------------------------------
(* The session lock over construction and two calling threads *)

\* get_head_temperature_C: "TEMP?" written and one line read inside one
\* with self._lock block, the same block as that of _ask
SensorCall(t) ==
    /\ CanCall(t)
    /\ th' = [th EXCEPT ![t] =
                Ask(Begin(t, "get_head_temperature_C"), Cmd("TEMP?", <<>>), "temp_ret")]
    /\ UNCHANGED <<lock, ser_open, rx, devq, sent, lastIO, sess, dev>>

\* ... the line must start with OK and the rest must be a number
SensorRet(t) ==
    /\ th[t].pc = "temp_ret"
    /\ LET pl == th[t].line.pl
       IN  th' = [th EXCEPT ![t] =
                    IF th[t].line.st # "OK" THEN Unwind(@, "ProtocolError")
                    ELSE IF Len(pl) # 1 \/ pl[1].t # "int" THEN Unwind(@, "ProtocolError")
                    ELSE Return(@, pl[1].v)]
    /\ UNCHANGED <<lock, ser_open, rx, devq, sent, lastIO, sess, dev>>

\* a Log head; LOGCAL streams of one good table and of an empty one, whole,
\* cut short, without the DONE line, with a malformed header
LockProfile ==
    [sts |-> {"OK", "ERR"},
     heads |-> {TypeLog},
     cal |-> {}, calfaults |-> {}, zerosq |-> {},
     luts |-> {<<>>, <<<<0, -589824>>, <<1000, -196608>>>>},
     pats |-> {<<37, 200>>}, shorts |-> {0, 1}, cuts |-> {0},
     snaps |-> {}, gainsq |-> {},
     temps |-> {<<I(23)>>, <<W("nan?")>>}]

\* thread 1 constructs the session; once it is ready both threads call
InitLock ==
    /\ th = [t \in {1, 2} |-> [IdleFrame EXCEPT !.budget = IF t = 1 THEN 2 ELSE MaxCalls]]
    /\ sess = Sess0
    /\ lock = NoThread
    /\ ser_open = TRUE
    /\ rx = <<>>
    /\ devq = <<>>
    /\ sent = <<>>
    /\ lastIO = [by |-> NoThread, kind |-> "none", tick |-> 0]
    /\ dev = [payload |-> <<>>, xfer |-> 0, busy |-> 0, head |-> <<>>, boot |-> FALSE]

NextLock ==
    \/ Construct(1)
    \/ \E t \in Threads : InitDetect(t)
    \/ \E t \in Threads : InitHead(t)
    \/ \E t \in Threads : InitI2C(t)
    \/ \E t \in Threads : LogcalLock(t)
    \/ \E t \in Threads : LogcalReset(t)
    \/ \E t \in Threads : LogcalWrite(t)
    \/ \E t \in Threads : LogcalReadHeader(t)
    \/ \E t \in Threads : LogcalPayload(t)
    \/ \E t \in Threads : LogcalDone(t)
    \/ \E t \in Threads : sess.ready /\ SimpleCall(t, "idn")
    \/ \E t \in Threads : SimpleRet(t)
    \/ \E t \in Threads : sess.ready /\ SensorCall(t)
    \/ \E t \in Threads : SensorRet(t)
    \/ \E t \in Threads :
           sess.ready /\ TransferCall(t, "transfer_frames_adc", 1, "None", NoneQ)
    \/ \E t \in Threads : XferLock(t)
    \/ \E t \in Threads : XferReset(t)
    \/ \E t \in Threads : XferWrite(t)
    \/ \E t \in Threads : XferLine(t)
    \/ \E t \in Threads : XferData(t)
    \/ \E t \in Threads : XferDecode(t)
    \/ \E t \in Threads : AskLock(t)
    \/ \E t \in Threads : AskWrite(t)
    \/ \E t \in Threads : AskRead(t)
    \/ DevReply(LockProfile)

\* a step of thread t
StepOf(t) == NextLock /\ th'[t] # th[t]

\* every thread that can take a step eventually takes one
SpecLock == InitLock /\ [][NextLock]_vars /\ WF_vars(StepOf(1)) /\ WF_vars(StepOf(2))

\* the places where a thread is about to enter a with self._lock block
AcquirePcs == {"ask", "xfer_lock", "logcal_lock"}

\* the places inside a with self._lock block
HoldPcs == {"ask_write", "ask_read", "xfer_reset", "xfer_write", "xfer_line",
            "xfer_data", "logcal_reset", "logcal_write", "logcal_header",
            "logcal_payload", "logcal_done"}

\* C37: a thread holds the session lock exactly while it is inside a with
\* block: never after its operation has returned or raised, and never at
\* the entry of a with block (so it does not acquire the lock it holds);
\* and a thread waiting at the entry of a with block eventually holds the
\* lock.
C37_LockReleased ==
    /\ [][\A t \in Threads : (lock' = t) <=> (th'[t].pc \in HoldPcs)]_vars
    /\ \A t \in {1, 2} : (th[t].pc \in AcquirePcs) ~> (lock = t)

\* C37 witness: thread 2's TEMP? exchange timed out and raised while
\* thread 1 waits at the entry of its own exchange, with the lock free
C37_Witness ==
    /\ th[2].op = "get_head_temperature_C" /\ th[2].pc = "idle"
    /\ th[2].out = Raised("DeviceTimeout")
    /\ th[1].pc = "ask" /\ th[1].calls = 2
    /\ lock = NoThread

====
